---- MODULE Spec2Model ----
(***************************************************************************)
(* Mythras character generator.  The main part is the skill-allocation     *)
(* engine of script.js: the state is the shared `character` object and the *)
(* parts of the page (skills table rows, disabled inputs, professional-    *)
(* skill and equipment checkboxes, bonus-skill options) that decide which  *)
(* handlers the user can trigger.  Every handler is an operator from state *)
(* to state; an action applies one handler to an input the user can        *)
(* produce in the current page.  The multi-step form of main.js is         *)
(* modelled the same way, as a page of its own.                            *)
(***************************************************************************)
EXTENDS Integers, Sequences, FiniteSets, TLC

VARIABLES character, dom, lastEvent, budget

vars == <<character, dom, lastEvent, budget>>

----------------------------------------------------------------------------
(* Reference data (script.js lines 20-283).                                *)

ageCategories ==
     "Young"  :> [bonus |-> 100, max |-> 10]
  @@ "Adult"  :> [bonus |-> 150, max |-> 15]
  @@ "Middle" :> [bonus |-> 200, max |-> 20]
  @@ "Senior" :> [bonus |-> 250, max |-> 25]
  @@ "Old"    :> [bonus |-> 300, max |-> 30]

\* multiplier10 is the source's multiplier times ten (0.5 -> 5, 1.5 -> 15).
socialClassesByCulture ==
     "Barbarian" :> << [name |-> "Slave",     multiplier10 |-> 5],
                       [name |-> "Freeman",   multiplier10 |-> 10],
                       [name |-> "Warrior",   multiplier10 |-> 15],
                       [name |-> "Noble",     multiplier10 |-> 20] >>
  @@ "Civilized" :> << [name |-> "Slave",     multiplier10 |-> 5],
                       [name |-> "Peasant",   multiplier10 |-> 10],
                       [name |-> "Townsman",  multiplier10 |-> 15],
                       [name |-> "Merchant",  multiplier10 |-> 20],
                       [name |-> "Noble",     multiplier10 |-> 30] >>
  @@ "Nomadic"   :> << [name |-> "Slave",     multiplier10 |-> 5],
                       [name |-> "Herdsman",  multiplier10 |-> 10],
                       [name |-> "Horseman",  multiplier10 |-> 15],
                       [name |-> "Chieftain", multiplier10 |-> 20] >>
  @@ "Primitive" :> << [name |-> "Outcast",   multiplier10 |-> 5],
                       [name |-> "Hunter",    multiplier10 |-> 10],
                       [name |-> "Shaman",    multiplier10 |-> 15],
                       [name |-> "Chief",     multiplier10 |-> 20] >>

combatStyles ==
  << "Sword & Shield", "Two-Handed Weapon", "Spear & Shield", "Bow & Spear",
     "Dual Wield", "Unarmed", "Mounted Combat", "Crossbow & Dagger",
     "Great Axe", "Staff & Sling" >>

standardSkillFormulas ==
  {
    "Athletics", "Boating", "Brawn", "Conceal", "Customs", "Dance",
    "Deceit", "Drive", "Endurance", "Evade", "First Aid", "Influence",
    "Insight", "Locale", "Native Tongue", "Perception", "Ride", "Sing",
    "Stealth", "Swim", "Unarmed", "Willpower", "Combat Style" }

professionalSkills ==
  <<
    "Art", "Commerce", "Craft", "Courtesy", "Language", "Lore",
    "Musicianship", "Streetwise", "Culture", "Disguise", "Sleight",
    "Survival", "Track", "Healing", "Teach", "Bureaucracy", "Linguistics",
    "Gambling", "Seduction", "Engineering", "Mechanisms", "Research",
    "Acrobatics", "Acting", "Oratory", "Navigation", "Seamanship",
    "Electronics", "Magic", "Literacy", "Pilot", "Sensors", "Politics",
    "Customs", "Animal Husbandry" >>

cultures ==
     "Barbarian" :> [
       standard |-> <<
         "Athletics", "Brawn", "Endurance", "First Aid", "Locale",
         "Perception", "Boating", "Ride", "Combat Style" >>,
       professional |-> <<
         "Craft", "Healing", "Lore", "Musicianship", "Navigation",
         "Seamanship", "Survival", "Track" >>]
  @@ "Civilized" :> [
       standard |-> <<
         "Conceal", "Deceit", "Drive", "Influence", "Insight", "Locale",
         "Willpower", "Combat Style" >>,
       professional |-> <<
         "Art", "Commerce", "Craft", "Courtesy", "Language", "Lore",
         "Musicianship", "Streetwise" >>]
  @@ "Nomadic" :> [
       standard |-> <<
         "Endurance", "First Aid", "Locale", "Perception", "Stealth",
         "Athletics", "Boating", "Swim", "Drive", "Ride", "Combat Style" >>,
       professional |-> <<
         "Craft", "Culture", "Language", "Lore", "Musicianship",
         "Navigation", "Survival", "Track" >>]
  @@ "Primitive" :> [
       standard |-> <<
         "Brawn", "Endurance", "Evade", "Locale", "Perception", "Stealth",
         "Athletics", "Boating", "Swim", "Combat Style" >>,
       professional |-> <<
         "Craft", "Healing", "Lore", "Musicianship", "Navigation",
         "Survival", "Track" >>]

careers ==
     "Agent" :> [
       standard |-> <<
         "Conceal", "Deceit", "Evade", "Insight", "Perception", "Stealth",
         "Combat Style" >>,
       professional |-> <<
         "Culture", "Disguise", "Language", "Sleight", "Streetwise",
         "Survival", "Track" >>]
  @@ "Beast Handler" :> [
       standard |-> <<
         "Drive", "Endurance", "First Aid", "Influence", "Locale", "Ride",
         "Willpower" >>,
       professional |-> <<
         "Craft", "Commerce", "Healing", "Lore", "Survival", "Teach",
         "Track" >>]
  @@ "Bounty Hunter" :> [
       standard |-> <<
         "Athletics", "Endurance", "Evade", "Insight", "Perception",
         "Stealth", "Combat Style" >>,
       professional |-> <<
         "Bureaucracy", "Commerce", "Culture", "Linguistics", "Streetwise",
         "Survival", "Track" >>]
  @@ "Courtesan" :> [
       standard |-> <<
         "Customs", "Dance", "Deceit", "Influence", "Insight",
         "Perception", "Sing" >>,
       professional |-> <<
         "Art", "Courtesy", "Culture", "Gambling", "Language",
         "Musicianship", "Seduction" >>]
  @@ "Crafter" :> [
       standard |-> <<
         "Brawn", "Drive", "Influence", "Insight", "Locale", "Perception",
         "Willpower" >>,
       professional |-> <<
         "Art", "Commerce", "Craft", "Engineering", "Mechanisms",
         "Streetwise" >>]
  @@ "Detective" :> [
       standard |-> <<
         "Customs", "Evade", "Influence", "Insight", "Perception",
         "Stealth", "Combat Style" >>,
       professional |-> <<
         "Bureaucracy", "Culture", "Disguise", "Linguistics", "Lore",
         "Research", "Sleight", "Streetwise" >>]
  @@ "Entertainer" :> [
       standard |-> <<
         "Athletics", "Brawn", "Dance", "Deceit", "Influence", "Insight",
         "Sing" >>,
       professional |-> <<
         "Acrobatics", "Acting", "Oratory", "Musicianship", "Seduction",
         "Sleight", "Streetwise" >>]
  @@ "Farmer" :> [
       standard |-> <<
         "Athletics", "Brawn", "Drive", "Endurance", "Locale",
         "Perception", "Ride" >>,
       professional |-> <<
         "Commerce", "Craft", "Lore", "Navigation", "Survival", "Track" >>]
  @@ "Fisher" :> [
       standard |-> <<
         "Athletics", "Boating", "Endurance", "Locale", "Perception",
         "Stealth", "Swim" >>,
       professional |-> <<
         "Commerce", "Craft", "Lore", "Navigation", "Seamanship", "Survival" >>]
  @@ "Gambler" :> [
       standard |-> <<
         "Athletics", "Brawn", "Endurance", "Locale", "Perception",
         "Willpower", "Drive", "Ride" >>,
       professional |-> <<
         "Acting", "Bureaucracy", "Commerce", "Courtesy", "Gambling",
         "Research", "Sleight", "Streetwise" >>]
  @@ "Herder" :> [
       standard |-> <<
         "Endurance", "First Aid", "Insight", "Locale", "Perception",
         "Ride", "Combat Style" >>,
       professional |-> <<
         "Commerce", "Craft", "Healing", "Navigation", "Musicianship",
         "Survival", "Track" >>]
  @@ "Hunter" :> [
       standard |-> <<
         "Athletics", "Endurance", "Locale", "Perception", "Ride",
         "Stealth", "Combat Style" >>,
       professional |-> <<
         "Commerce", "Craft", "Lore", "Mechanisms", "Navigation",
         "Survival", "Track" >>]
  @@ "Journalist" :> [
       standard |-> <<
         "Customs", "Deceit", "Influence", "Insight", "Locale",
         "Native Tongue", "Perception" >>,
       professional |-> <<
         "Bureaucracy", "Culture", "Language", "Lore", "Oratory",
         "Politics", "Streetwise" >>]
  @@ "Magician" :> [
       standard |-> <<
         "Customs", "Deceit", "Influence", "Insight", "Locale",
         "Perception", "Willpower" >>,
       professional |-> <<
         "Culture", "Magic", "Literacy", "Lore", "Oratory", "Sleight" >>]
  @@ "Mechanic" :> [
       standard |-> <<
         "Brawn", "Culture", "Drive", "Endurance", "Influence", "Locale",
         "Willpower" >>,
       professional |-> <<
         "Commerce", "Craft", "Electronics", "Gambling", "Mechanisms",
         "Streetwise" >>]
  @@ "Merchant" :> [
       standard |-> <<
         "Boating", "Drive", "Deceit", "Insight", "Influence", "Locale",
         "Ride" >>,
       professional |-> <<
         "Commerce", "Courtesy", "Culture", "Language", "Navigation",
         "Seamanship", "Streetwise" >>]
  @@ "Miner" :> [
       standard |-> <<
         "Athletics", "Brawn", "Endurance", "Locale", "Perception", "Sing",
         "Willpower" >>,
       professional |-> <<
         "Commerce", "Craft", "Engineering", "Lore", "Mechanisms",
         "Navigation", "Survival" >>]
  @@ "Official" :> [
       standard |-> <<
         "Customs", "Deceit", "Influence", "Insight", "Locale",
         "Perception", "Willpower" >>,
       professional |-> <<
         "Bureaucracy", "Commerce", "Courtesy", "Language", "Literacy",
         "Lore", "Oratory" >>]
  @@ "Physician" :> [
       standard |-> <<
         "Dance", "First Aid", "Influence", "Insight", "Locale", "Sing",
         "Willpower" >>,
       professional |-> <<
         "Commerce", "Craft", "Healing", "Language", "Literacy", "Lore",
         "Streetwise" >>]
  @@ "Pilot" :> [
       standard |-> <<
         "Brawn", "Drive", "Endurance", "Evade", "Locale", "Perception",
         "Willpower" >>,
       professional |-> <<
         "Customs", "Electronics", "Mechanisms", "Navigation", "Pilot",
         "Sensors", "Streetwise" >>]
  @@ "Politician" :> [
       standard |-> <<
         "Customs", "Deceit", "Influence", "Insight", "Locale",
         "Native Tongue", "Perception" >>,
       professional |-> <<
         "Bureaucracy", "Courtesy", "Culture", "Language", "Lore",
         "Oratory", "Politics" >>]
  @@ "Priest" :> [
       standard |-> <<
         "Customs", "Dance", "Deceit", "Influence", "Insight", "Locale",
         "Willpower" >>,
       professional |-> <<
         "Bureaucracy", "Courtesy", "Customs", "Literacy", "Lore",
         "Oratory", "Politics" >>]

----------------------------------------------------------------------------
(* Array helpers of the source language.                                   *)

Range(seq) == { seq[i] : i \in 1..Len(seq) }

includes(seq, x) == x \in Range(seq)

Min(a, b) == IF a < b THEN a ELSE b

Max(a, b) == IF a > b THEN a ELSE b

\* seq.slice(0, n)
slice(seq, n) == SubSeq(seq, 1, n)

\* seq.filter(s => list.includes(s))
filterIncluded(seq, list) == SelectSeq(seq, LAMBDA s : includes(list, s))

\* arr.splice(arr.indexOf(x), 1) when x is present, arr otherwise
spliceOut(seq, x) ==
  IF ~includes(seq, x) THEN seq
  ELSE LET idx == CHOOSE i \in 1..Len(seq) :
                    seq[i] = x /\ \A j \in 1..(i - 1) : seq[j] # x
       IN  SubSeq(seq, 1, idx - 1) \o SubSeq(seq, idx + 1, Len(seq))

RECURSIVE SumOver(_, _)
SumOver(S, f) ==
  IF S = {} THEN 0
  ELSE LET x == CHOOSE y \in S : TRUE IN f[x] + SumOver(S \ {x}, f)

----------------------------------------------------------------------------
(* The skill list and the character object.                                *)

PoolNames == {"culture", "career", "bonus"}

\* buildSkillList: every name used by a formula or a professional list.
allSkills ==
  standardSkillFormulas \cup Range(professionalSkills)
    \cup UNION { Range(cultures[k].professional) : k \in DOMAIN cultures }
    \cup UNION { Range(careers[k].professional) : k \in DOMAIN careers }

\* The object literal, with the zero allocations of every skill.
characterLiteral ==
  [ name |-> "",
    ageCat |-> "Adult",
    culture |-> "Barbarian",
    career |-> "Agent",
    socialClass |-> "Middle",
    attributes |-> [a \in {"STR", "CON", "SIZ", "DEX", "INT", "POW", "CHA"} |-> 10],
    pool |-> 75,
    skillPools |-> [culture |-> 100, career |-> 100,
                    bonus |-> ageCategories["Adult"].bonus],
    skillCaps |-> [culture |-> 15, career |-> 15,
                   bonus |-> ageCategories["Adult"].max],
    skillAllocations |->
      [s \in allSkills |-> [culture |-> 0, career |-> 0, bonus |-> 0]],
    selectedCulturePro |-> << >>,
    selectedCareerPro |-> << >>,
    combatStyle |-> combatStyles[1],
    bonusSkill |-> "",
    equipment |-> << >>,
    \* The literal has no startingSilver property: << >> stands for the
    \* missing property, << n >> for the value n once it is rolled.
    startingSilver |-> << >> ]

\* The page before init() has built anything.
emptyDom ==
  [ rows |-> {},            \* skills that have a row in #skillsTable
    disabled |-> {},        \* <<skill, pool>> of the disabled inputs
    cultureChecked |-> {},  \* checked boxes of #cultureProOptions
    careerChecked |-> {},   \* checked boxes of #careerProOptions
    bonusOptions |-> {},    \* option values of #bonusSkillSelect
    equipChecked |-> {},    \* checked boxes of #equipmentList
    remaining |-> << >>,    \* character the "remaining" spans show
    summary |-> << >>,      \* the character #characterSummary shows
    method |-> "point",     \* value of the #method select
    attrDisabled |-> FALSE, \* the characteristic inputs are disabled
    poolDisabled |-> FALSE, \* the #poolSize input is disabled
    pointPoolInfo |-> [display |-> "none", remaining |-> << >>] ]

\* Sum of one pool's allocations over all skills (the reduce of
\* onSkillInputChange and updateSkillPoolsDisplay).
PoolSpent(c, pool) ==
  SumOver({ s \in allSkills : c.skillAllocations[s][pool] # 0 },
          [s \in allSkills |-> c.skillAllocations[s][pool]])

\* What updateSkillPoolsDisplay writes in the three "remaining" spans.
PoolRemaining(c, pool) == c.skillPools[pool] - PoolSpent(c, pool)


----------------------------------------------------------------------------
(* Derived statistics of script.js.                                        *)

\* The bands of damageModifier, in the order the function tests them.
damageBands ==
  << [upTo |-> 5, dice |-> "-1d8"],
     [upTo |-> 10, dice |-> "-1d6"],
     [upTo |-> 15, dice |-> "-1d4"],
     [upTo |-> 20, dice |-> "-1d2"],
     [upTo |-> 25, dice |-> "0"],
     [upTo |-> 30, dice |-> "+1d2"],
     [upTo |-> 35, dice |-> "+1d4"],
     [upTo |-> 40, dice |-> "+1d6"],
     [upTo |-> 45, dice |-> "+1d8"],
     [upTo |-> 50, dice |-> "+1d10"],
     [upTo |-> 60, dice |-> "+1d12"],
     [upTo |-> 70, dice |-> "+2d6"],
     [upTo |-> 80, dice |-> "+1d8+1d6"],
     [upTo |-> 90, dice |-> "+2d8"],
     [upTo |-> 100, dice |-> "+1d10+1d8"],
     [upTo |-> 110, dice |-> "+2d10"],
     [upTo |-> 120, dice |-> "+2d10+1d2"] >>

\* The dice of the first band of `bands` that holds total, << >> when the
\* total is above every band.
firstBand(bands, total) ==
  LET hits == { i \in 1..Len(bands) : total <= bands[i].upTo }
  IN  IF hits = {} THEN << >>
      ELSE << bands[CHOOSE i \in hits : \A j \in hits : i <= j].dice >>

\* The damage modifier of a total of STR + SIZ.
damageModifier(total) ==
  LET band == firstBand(damageBands, total)
      extra == (total - 120) \div 10
  IN  IF band # << >> THEN band[1]
      ELSE "+2d10+" \o ToString(extra) \o "d2"

\* experienceModifier with the offset of main.js's review page, 18.
experienceModifierFrom18(cha) ==
  IF cha <= 6 THEN 0 - 1
  ELSE IF cha <= 12 THEN 0
  ELSE IF cha <= 18 THEN 1
  ELSE 1 + ((cha - 18) \div 6)

experienceModifier(cha) ==
  IF cha <= 6 THEN 0 - 1
  ELSE IF cha <= 12 THEN 0
  ELSE IF cha <= 18 THEN 1
  ELSE 1 + ((cha - 13) \div 6)

healingRate(con) ==
  IF con <= 6 THEN 1
  ELSE IF con <= 12 THEN 2
  ELSE IF con <= 18 THEN 3
  ELSE 3 + ((con - 13) \div 6)

luckPoints(pow) ==
  IF pow <= 6 THEN 1
  ELSE IF pow <= 12 THEN 2
  ELSE IF pow <= 18 THEN 3
  ELSE 3 + ((pow - 13) \div 6)

\* The rows of hitPointsPerLocation; the array is indexed from 0, the
\* sequence from 1.
hitPointRows ==
  << [head |-> 1, chest |-> 3, abdomen |-> 2, arm |-> 1, leg |-> 1],
     [head |-> 2, chest |-> 4, abdomen |-> 3, arm |-> 1, leg |-> 2],
     [head |-> 3, chest |-> 5, abdomen |-> 4, arm |-> 2, leg |-> 3],
     [head |-> 4, chest |-> 6, abdomen |-> 5, arm |-> 3, leg |-> 4],
     [head |-> 5, chest |-> 7, abdomen |-> 6, arm |-> 4, leg |-> 5],
     [head |-> 6, chest |-> 8, abdomen |-> 7, arm |-> 5, leg |-> 6],
     [head |-> 7, chest |-> 9, abdomen |-> 8, arm |-> 6, leg |-> 7],
     [head |-> 8, chest |-> 10, abdomen |-> 9, arm |-> 7, leg |-> 8] >>

\* What a call returns: the locations, or threw when reading .head of the
\* undefined row of an index outside the array raises a TypeError.
hitPointsOf(row, extraGroups) ==
  [ threw |-> FALSE,
    head |-> row.head + extraGroups,
    chest |-> row.chest + extraGroups,
    abdomen |-> row.abdomen + extraGroups,
    arm |-> row.arm + extraGroups,
    leg |-> row.leg + extraGroups ]

\* hitPointsPerLocation without the addition of line 801 for totals
\* above 40.
hitPointsPerLocationFlat(total) ==
  LET idx == Min((total - 1) \div 5, 7)
  IN  IF idx + 1 \in DOMAIN hitPointRows
      THEN hitPointsOf(hitPointRows[idx + 1], 0)
      ELSE [threw |-> TRUE]

\* The hit points per location of a total of CON + SIZ.
hitPointsPerLocation(total) ==
  LET idx == Min((total - 1) \div 5, 7)
      extraGroups == Max(0, (total - 40) \div 5)
  IN  IF idx + 1 \in DOMAIN hitPointRows
      THEN hitPointsOf(hitPointRows[idx + 1], extraGroups)
      ELSE [threw |-> TRUE]

\* The bands of damageMod on the review page of main.js.
damageModBands ==
  << [upTo |-> 5, dice |-> "-1d8"],
     [upTo |-> 10, dice |-> "-1d6"],
     [upTo |-> 15, dice |-> "-1d4"],
     [upTo |-> 20, dice |-> "-1d2"],
     [upTo |-> 25, dice |-> "+0"],
     [upTo |-> 30, dice |-> "+1d2"],
     [upTo |-> 35, dice |-> "+1d4"],
     [upTo |-> 40, dice |-> "+1d6"],
     [upTo |-> 45, dice |-> "+1d8"] >>

\* damageMod of renderReview (main.js).
damageMod(sum) ==
  LET band == firstBand(damageModBands, sum)
  IN  IF band # << >> THEN band[1] ELSE "+1d10"

----------------------------------------------------------------------------
(* Skill totals and the character summary of script.js.                    *)

\* The characteristics, in the order of the attributes object.
attributeKeys == <<"STR", "CON", "SIZ", "DEX", "INT", "POW", "CHA">>

\* The formula standardSkillFormulas holds for a skill, applied to the
\* characteristics a.
skillFormula(skill, a) ==
  CASE skill = "Athletics" -> a.STR + a.DEX
    [] skill = "Boating" -> a.STR + a.CON
    [] skill = "Brawn" -> a.STR + a.SIZ
    [] skill = "Conceal" -> a.DEX + a.POW
    [] skill = "Customs" -> a.INT * 2 + 40
    [] skill = "Dance" -> a.DEX + a.CHA
    [] skill = "Deceit" -> a.INT + a.CHA
    [] skill = "Drive" -> a.DEX + a.POW
    [] skill = "Endurance" -> a.CON * 2
    [] skill = "Evade" -> a.DEX * 2
    [] skill = "First Aid" -> a.INT + a.DEX
    [] skill = "Influence" -> a.CHA * 2
    [] skill = "Insight" -> a.INT + a.POW
    [] skill = "Locale" -> a.INT * 2
    [] skill = "Native Tongue" -> a.INT + a.CHA + 40
    [] skill = "Perception" -> a.INT + a.POW
    [] skill = "Ride" -> a.DEX + a.POW
    [] skill = "Sing" -> a.CHA + a.POW
    [] skill = "Stealth" -> a.DEX + a.INT
    [] skill = "Swim" -> a.STR + a.CON
    [] skill = "Unarmed" -> a.STR + a.DEX
    [] skill = "Willpower" -> a.POW * 2
    [] skill = "Combat Style" -> a.STR + a.DEX

computeBaseForSkill(c, skill) ==
  IF skill \in standardSkillFormulas
  THEN skillFormula(skill, c.attributes)
  ELSE 0

\* computeTotalForSkill without the minimum of lines 1078-1080.
computeTotalForSkillUnraised(c, skill) ==
  LET base == computeBaseForSkill(c, skill)
      alloc == c.skillAllocations[skill]
  IN  base + alloc.culture + alloc.career + alloc.bonus

computeTotalForSkill(c, skill) ==
  LET base == computeBaseForSkill(c, skill)
      alloc == c.skillAllocations[skill]
      total == base + alloc.culture + alloc.career + alloc.bonus
  IN  IF skill \in standardSkillFormulas /\ total < 5 THEN 5 ELSE total

\* (character.startingSilver || 0)
silverOrZero(c) ==
  IF c.startingSilver = << >> THEN 0 ELSE c.startingSilver[1]

\* The derived values of buildCharacterData.
derivedData(c) ==
  [ damageModifier |-> damageModifier(c.attributes.STR + c.attributes.SIZ),
    experienceModifier |-> experienceModifier(c.attributes.CHA),
    healingRate |-> healingRate(c.attributes.CON),
    luckPoints |-> luckPoints(c.attributes.POW),
    initiative |-> (c.attributes.DEX + c.attributes.INT) \div 2,
    hitPoints |-> hitPointsPerLocation(c.attributes.CON + c.attributes.SIZ) ]

\* The entry of one skill in buildCharacterData.
skillData(c, skill) ==
  [ base |-> computeBaseForSkill(c, skill),
    culture |-> c.skillAllocations[skill].culture,
    career |-> c.skillAllocations[skill].career,
    bonus |-> c.skillAllocations[skill].bonus,
    total |-> computeTotalForSkill(c, skill) ]

\* The snapshot of the character that the summary and the exports use.
buildCharacterData(c) ==
  [ name |-> c.name,
    ageCategory |-> c.ageCat,
    culture |-> c.culture,
    career |-> c.career,
    socialClass |-> c.socialClass,
    attributes |-> c.attributes,
    derived |-> derivedData(c),
    skills |-> [ s \in allSkills |-> skillData(c, s) ],
    startingSilver |-> silverOrZero(c),
    equipment |-> c.equipment,
    combatStyle |-> c.combatStyle,
    selectedCulturePro |-> c.selectedCulturePro,
    selectedCareerPro |-> c.selectedCareerPro ]

\* What renderCharacterSummary writes for a character, from the fields of
\* buildCharacterData it reads: the header lines, the characteristics, the
\* derived values, the silver, the skills whose total is above 0 and the
\* equipment.
summaryOf(c) ==
  LET totals == { <<s, computeTotalForSkill(c, s)>> : s \in allSkills }
  IN  [ name |-> IF c.name = "" THEN "Unnamed" ELSE c.name,
        culture |-> c.culture,
        career |-> c.career,
        ageCategory |-> c.ageCat,
        socialClass |-> c.socialClass,
        combatStyle |-> c.combatStyle,
        attributes |-> c.attributes,
        derived |-> derivedData(c),
        startingSilver |-> silverOrZero(c),
        skills |-> { line \in totals : line[2] > 0 },
        equipment |-> c.equipment ]

\* The page state keeps the character the container was last rendered from:
\* the container shows summaryOf of it.
renderCharacterSummary(st) ==
  [st EXCEPT !.dom.summary = << st.character >>]

\* What the summary container shows, << >> before the first rendering.
shownSummary(d) ==
  IF d.summary = << >> THEN << >> ELSE << summaryOf(d.summary[1]) >>

\* Rewrites the total cells of the rows (not held in the page state) and
\* refreshes the summary.
updateSkillTotals(st) == renderCharacterSummary(st)

\* Writes what each pool has left into its "remaining" span.  The page
\* state keeps the character the numbers were computed from; shownRemaining
\* gives the numbers themselves.
updateSkillPoolsDisplay(st) ==
  [st EXCEPT !.dom.remaining = << st.character >>]

\* The numbers the three "remaining" spans show.
shownRemaining(d) ==
  IF d.remaining = << >>
  THEN << >>
  ELSE << [pool \in PoolNames |-> PoolRemaining(d.remaining[1], pool)] >>

\* Rewrites the derived values (not held in the page state) and refreshes
\* the summary.
updateDerived(st) == renderCharacterSummary(st)

\* Rewrites the base and total cells of the rows, which the page state does
\* not hold.
updateSkillBases(st) == st

\* Shows what the pool has left under point buy, hides the line otherwise.
updatePointPoolInfo(st) ==
  IF st.dom.method = "point"
  THEN LET a == st.character.attributes
           sum == SumOver(DOMAIN a, a)
       IN  [st EXCEPT !.dom.pointPoolInfo =
              [display |-> "inline",
               remaining |-> << st.character.pool - sum >>]]
  ELSE [st EXCEPT !.dom.pointPoolInfo.display = "none"]

\* Rebuilds the seven characteristic inputs, enabled, from the character.
buildAttributeInputs(st) ==
  updatePointPoolInfo([st EXCEPT !.dom.attrDisabled = FALSE])
----------------------------------------------------------------------------
(* Page refreshes.                                                         *)

\* The <<skill, pool>> inputs that updateSkillInputsEnabled disables among
\* the given rows; bonus inputs are never disabled.
updateSkillInputsEnabled(c, rows) ==
  LET cultureDef == cultures[c.culture]
      careerDef == careers[c.career]
      cultureOk == Range(cultureDef.standard)
                     \cup (Range(cultureDef.professional)
                            \cap Range(c.selectedCulturePro))
      careerOk == Range(careerDef.standard)
                    \cup (Range(careerDef.professional)
                           \cap Range(c.selectedCareerPro))
  IN  { <<s, "culture">> : s \in rows \ cultureOk }
        \cup { <<s, "career">> : s \in rows \ careerOk }

\* The rows buildSkillsTable creates: every formula skill, the selected
\* professional skills, the bonus skill and every skill holding points.
skillsTableRows(c) ==
  LET available ==
        standardSkillFormulas
          \cup Range(c.selectedCulturePro) \cup Range(c.selectedCareerPro)
          \cup (IF c.bonusSkill # "" THEN {c.bonusSkill} ELSE {})
          \cup { s \in allSkills :
                   c.skillAllocations[s].culture + c.skillAllocations[s].career
                     + c.skillAllocations[s].bonus > 0 }
  IN  { s \in allSkills : s \in available }

buildSkillsTable(st) ==
  LET rows == skillsTableRows(st.character)
      st1 == updateSkillPoolsDisplay([st EXCEPT !.dom.rows = rows])
  IN  [st1 EXCEPT !.dom.disabled = updateSkillInputsEnabled(st.character, rows)]

\* populateSocialClassSelect without the else branch of lines 439-442: the
\* previous social class stays whatever the culture offers.
populateSocialClassSelectKeeping(st) == st

\* Keeps the previous social class when the culture has it, otherwise
\* takes the culture's first class.
populateSocialClassSelect(st) ==
  LET classes == socialClassesByCulture[st.character.culture]
      previous == st.character.socialClass
  IN  IF \E i \in 1..Len(classes) : classes[i].name = previous THEN st
      ELSE IF Len(classes) > 0
           THEN [st EXCEPT !.character.socialClass = classes[1].name]
           ELSE st

\* Rebuilds the hobby-skill options and drops a bonus skill that is no
\* longer offered.
populateBonusSkillSelect(st) ==
  LET c == st.character
      excluded ==
        standardSkillFormulas
          \cup Range(cultures[c.culture].professional)
          \cup Range(careers[c.career].professional)
          \cup Range(c.selectedCulturePro) \cup Range(c.selectedCareerPro)
      options == { s \in Range(professionalSkills) : s \notin excluded }
      keep == c.bonusSkill # "" /\ c.bonusSkill \notin excluded
  IN  [st EXCEPT !.dom.bonusOptions = options,
                 !.character.bonusSkill = IF keep THEN @ ELSE ""]

\* populateProfessionalOptions without the filter of lines 529-530: a
\* selection made under the previous culture or career is kept as it is.
populateProfessionalOptionsUnfiltered(st) ==
  LET c == st.character
      cList == cultures[c.culture].professional
      crList == careers[c.career].professional
      keptCulture == c.selectedCulturePro
      keptCareer == c.selectedCareerPro
      selCulture == IF Len(keptCulture) = 0 /\ Len(cList) > 0
                    THEN slice(cList, Min(3, Len(cList))) ELSE keptCulture
      selCareer == IF Len(keptCareer) = 0 /\ Len(crList) > 0
                   THEN slice(crList, Min(3, Len(crList))) ELSE keptCareer
      c1 == [c EXCEPT !.selectedCulturePro = selCulture,
                      !.selectedCareerPro = selCareer]
      st1 == [st EXCEPT
                !.character = c1,
                !.dom.cultureChecked = Range(cList) \cap Range(selCulture),
                !.dom.careerChecked = Range(crList) \cap Range(selCareer),
                !.dom.disabled = updateSkillInputsEnabled(c1, st.dom.rows)]
  IN  populateBonusSkillSelect(updateSkillTotals(updateSkillPoolsDisplay(st1)))

\* Filters both selections to the active lists, seeds an empty selection
\* with the first three entries, rebuilds the checkboxes and refreshes the
\* inputs of the existing rows and the bonus-skill select.
populateProfessionalOptions(st) ==
  LET c == st.character
      cList == cultures[c.culture].professional
      crList == careers[c.career].professional
      keptCulture == filterIncluded(c.selectedCulturePro, cList)
      keptCareer == filterIncluded(c.selectedCareerPro, crList)
      selCulture == IF Len(keptCulture) = 0 /\ Len(cList) > 0
                    THEN slice(cList, Min(3, Len(cList))) ELSE keptCulture
      selCareer == IF Len(keptCareer) = 0 /\ Len(crList) > 0
                   THEN slice(crList, Min(3, Len(crList))) ELSE keptCareer
      c1 == [c EXCEPT !.selectedCulturePro = selCulture,
                      !.selectedCareerPro = selCareer]
      st1 == [st EXCEPT
                !.character = c1,
                !.dom.cultureChecked = Range(cList) \cap Range(selCulture),
                !.dom.careerChecked = Range(crList) \cap Range(selCareer),
                !.dom.disabled = updateSkillInputsEnabled(c1, st.dom.rows)]
  IN  populateBonusSkillSelect(updateSkillTotals(updateSkillPoolsDisplay(st1)))

\* applyCultureMinimums without the test of line 979: every standard skill
\* of the culture gets 5 more points each time.
applyCultureMinimumsAdding(st) ==
  LET std == Range(cultures[st.character.culture].standard)
  IN  updateSkillTotals(updateSkillPoolsDisplay(
        [st EXCEPT !.character.skillAllocations =
           [s \in allSkills |->
              IF s \in std
              THEN [@[s] EXCEPT !.culture = @ + 5] ELSE @[s]]]))

\* Raises the culture points of every standard skill of the culture to 5,
\* then refreshes the pool counters and the totals.
applyCultureMinimums(st) ==
  LET std == Range(cultures[st.character.culture].standard)
  IN  updateSkillTotals(updateSkillPoolsDisplay(
        [st EXCEPT !.character.skillAllocations =
           [s \in allSkills |->
              IF s \in std /\ @[s].culture < 5
              THEN [@[s] EXCEPT !.culture = 5] ELSE @[s]]]))


\* ------------------------------------------------------------------
\* Equipment and starting silver (script.js)

\* equipmentCategories, flattened: the items in the order the list shows them.
equipmentItems ==
  << [name |-> "Dagger", cost |-> 20],
     [name |-> "Short Sword", cost |-> 50],
     [name |-> "Long Sword", cost |-> 60],
     [name |-> "Axe", cost |-> 40],
     [name |-> "Spear", cost |-> 30],
     [name |-> "Bow and 20 Arrows", cost |-> 80],
     [name |-> "Crossbow and 20 Bolts", cost |-> 100],
     [name |-> "Leather Armour", cost |-> 100],
     [name |-> "Studded Leather", cost |-> 150],
     [name |-> "Chain Shirt", cost |-> 300],
     [name |-> "Chain Mail", cost |-> 500],
     [name |-> "Shield", cost |-> 40],
     [name |-> "Backpack", cost |-> 10],
     [name |-> "Bedroll", cost |-> 5],
     [name |-> "Lantern", cost |-> 15],
     [name |-> "Rope (50 ft)", cost |-> 10],
     [name |-> "Waterskin", cost |-> 5],
     [name |-> "Rations (1 week)", cost |-> 10],
     [name |-> "Wine (jug)", cost |-> 8],
     [name |-> "Ale (jug)", cost |-> 6],
     [name |-> "Spices", cost |-> 4],
     [name |-> "Flint & Steel", cost |-> 2],
     [name |-> "Blank Parchment (10 sheets)", cost |-> 3],
     [name |-> "Ink & Quill", cost |-> 5],
     [name |-> "Small Mirror", cost |-> 12],
     [name |-> "Holy Symbol", cost |-> 15] >>

\* The item object of a name.
itemNamed(name) ==
  CHOOSE item \in Range(equipmentItems) : item.name = name

RECURSIVE SumCosts(_)
SumCosts(items) ==
  IF items = << >> THEN 0 ELSE Head(items).cost + SumCosts(Tail(items))

getEquipmentTotal(c) == SumCosts(c.equipment)

\* The number updateRemainingSilver and onEquipmentToggle compute.
remainingSilver(c) == silverOrZero(c) - getEquipmentTotal(c)

hasItem(c, name) == \E i \in 1..Len(c.equipment) : c.equipment[i].name = name

\* Rebuilds the checkboxes: a box is checked when its item is in
\* character.equipment.
buildEquipmentList(st) ==
  [st EXCEPT !.dom.equipChecked =
     { item.name : item \in { i \in Range(equipmentItems) :
                                hasItem(st.character, i.name) } }]

\* onEquipmentToggle without the test of line 938: every purchase is taken.
onEquipmentToggleUnchecked(st, item, checked) ==
  LET c == st.character
  IN  renderCharacterSummary(
        IF checked
        THEN IF ~hasItem(c, item.name)
             THEN [st EXCEPT !.character.equipment = Append(@, item)]
             ELSE st
        ELSE [st EXCEPT !.character.equipment =
                SelectSeq(@, LAMBDA e : e.name # item.name)])

\* Change event of an equipment checkbox: a purchase the remaining silver
\* does not pay for rebuilds the list and returns; otherwise the item is
\* added or removed and the summary is refreshed.
onEquipmentToggle(st, item, checked) ==
  LET c == st.character
      remaining == silverOrZero(c) - getEquipmentTotal(c)
  IN  IF checked /\ item.cost > remaining
      THEN buildEquipmentList(st)
      ELSE renderCharacterSummary(
             IF checked
             THEN IF ~hasItem(c, item.name)
                  THEN [st EXCEPT !.character.equipment = Append(@, item)]
                  ELSE st
             ELSE [st EXCEPT !.character.equipment =
                     SelectSeq(@, LAMBDA e : e.name # item.name)])

\* The browser flips the checkbox before the change handler runs.
clickEquipmentBox(st, name) ==
  LET checked == name \notin st.dom.equipChecked
      flipped == [st EXCEPT !.dom.equipChecked =
                    IF checked THEN @ \cup {name} ELSE @ \ {name}]
  IN  onEquipmentToggle(flipped, itemNamed(name), checked)

\* The dice generateStartingSilver rolls for a culture.
silverDice(culture) ==
  CASE culture = "Barbarian" -> [n |-> 2, s |-> 6]
    [] culture = "Civilized" -> [n |-> 3, s |-> 6]
    [] culture = "Nomadic" -> [n |-> 1, s |-> 6]
    [] culture = "Primitive" -> [n |-> 1, s |-> 4]
    [] OTHER -> [n |-> 2, s |-> 6]

\* The totals rollDice(n, s) can return.
rollDice(n, s) == n..(n * s)

\* Math.round of tenths / 10, for a non-negative number of tenths.
roundTenths(tenths) == (tenths + 5) \div 10

\* The multiplier (in tenths) of the selected social class in the selected
\* culture, 1 when the class is not one of the culture's.
classMultiplier10(c) ==
  LET classes == socialClassesByCulture[c.culture]
      found == { i \in 1..Len(classes) : classes[i].name = c.socialClass }
  IN  IF found = {} THEN 10
      ELSE classes[CHOOSE i \in found : \A j \in found : i <= j].multiplier10

\* generateStartingSilver that keeps the purchases of the previous roll.
generateStartingSilverKeeping(st, roll) ==
  LET c == st.character
      base == roll * 10
      total == roundTenths(base * classMultiplier10(c))
  IN  renderCharacterSummary(buildEquipmentList(
        [st EXCEPT !.character.startingSilver = << total >>]))

\* generateStartingSilver that keeps the purchases the new roll still pays
\* for, and empties the list only when it does not.
generateStartingSilverAffordable(st, roll) ==
  LET c == st.character
      base == roll * 10
      total == roundTenths(base * classMultiplier10(c))
  IN  renderCharacterSummary(buildEquipmentList(
        [st EXCEPT !.character.startingSilver = << total >>,
                   !.character.equipment =
                      IF getEquipmentTotal(c) <= total THEN @ ELSE << >>]))

\* Click on the roll-silver button, the dice showing `roll` in total.
generateStartingSilver(st, roll) ==
  LET c == st.character
      base == roll * 10
      total == roundTenths(base * classMultiplier10(c))
  IN  renderCharacterSummary(buildEquipmentList(
        [st EXCEPT !.character.startingSilver = << total >>,
                   !.character.equipment = << >>]))
----------------------------------------------------------------------------
(* Event handlers.                                                         *)

\* Texts the user can leave in a number input, with the integer parseInt
\* reads from each; any other text ("" or letters) parses to NaN.
decimalTexts ==
  "-3" :> (0 - 3) @@ "0" :> 0 @@ "3" :> 3 @@ "7" :> 7 @@ "15" :> 15 @@ "90" :> 90

parseInt(text) ==
  IF text \in DOMAIN decimalTexts
  THEN [isNaN |-> FALSE, n |-> decimalTexts[text]]
  ELSE [isNaN |-> TRUE, n |-> 0]

\* onSkillInputChange without the test of line 1112: the value is not
\* lowered to what the pool has left.
onSkillInputChangeUnbounded(st, skill, poolName, text) ==
  LET c == st.character
      value == parseInt(text)
      cap == c.skillCaps[poolName]
      v1 == Min(value.n, cap)
      isStandard == includes(cultures[c.culture].standard, skill)
      v2 == IF poolName = "culture" /\ isStandard THEN Max(v1, 5) ELSE v1
      stored == IF value.isNaN \/ value.n < 0 THEN 0 ELSE v2
  IN  updateSkillTotals(updateSkillPoolsDisplay(
        [st EXCEPT !.character.skillAllocations[skill][poolName] = stored]))

\* onSkillInputChange without the per-skill cap of line 1100.
onSkillInputChangeUncapped(st, skill, poolName, text) ==
  LET c == st.character
      value == parseInt(text)
      v1 == value.n
      isStandard == includes(cultures[c.culture].standard, skill)
      v2 == IF poolName = "culture" /\ isStandard THEN Max(v1, 5) ELSE v1
      poolTotal == c.skillPools[poolName]
      currentSum == PoolSpent(c, poolName)
      available == poolTotal - (currentSum - c.skillAllocations[skill][poolName])
      v3 == IF v2 > available THEN available ELSE v2
      stored == IF value.isNaN \/ value.n < 0 THEN 0 ELSE v3
  IN  updateSkillTotals(updateSkillPoolsDisplay(
        [st EXCEPT !.character.skillAllocations[skill][poolName] = stored]))

\* Input event of the allocation input of `skill` in `poolName` holding
\* `text`: an unreadable or negative entry stores 0; otherwise the entry is
\* cut to the per-skill cap, raised to 5 on a standard skill of the culture
\* and cut to what the pool has left.
onSkillInputChange(st, skill, poolName, text) ==
  LET c == st.character
      value == parseInt(text)
      cap == c.skillCaps[poolName]
      v1 == Min(value.n, cap)
      isStandard == includes(cultures[c.culture].standard, skill)
      v2 == IF poolName = "culture" /\ isStandard THEN Max(v1, 5) ELSE v1
      poolTotal == c.skillPools[poolName]
      currentSum == PoolSpent(c, poolName)
      available == poolTotal - (currentSum - c.skillAllocations[skill][poolName])
      v3 == IF v2 > available THEN available ELSE v2
      stored == IF value.isNaN \/ value.n < 0 THEN 0 ELSE v3
  IN  updateSkillTotals(updateSkillPoolsDisplay(
        [st EXCEPT !.character.skillAllocations[skill][poolName] = stored]))

\* onProfessionalSelectionChange with the limit of line 586 off by one
\* (arr.length <= 3).
onProfessionalSelectionChangeOffByOne(st, type, skill, checked) ==
  LET c == st.character
      arr == IF type = "culture" THEN c.selectedCulturePro
             ELSE c.selectedCareerPro
      rejected == checked /\ ~includes(arr, skill) /\ ~(Len(arr) <= 3)
      arr1 == IF checked
              THEN (IF includes(arr, skill) THEN arr ELSE Append(arr, skill))
              ELSE spliceOut(arr, skill)
      proList == IF type = "culture" THEN cultures[c.culture].professional
                 ELSE careers[c.career].professional
      unselected == Range(proList) \ Range(arr1)
      alloc1 == [s \in allSkills |->
                   IF s \in unselected
                   THEN [c.skillAllocations[s] EXCEPT ![type] = 0]
                   ELSE c.skillAllocations[s]]
      c1 == IF type = "culture"
            THEN [c EXCEPT !.selectedCulturePro = arr1,
                           !.skillAllocations = alloc1]
            ELSE [c EXCEPT !.selectedCareerPro = arr1,
                           !.skillAllocations = alloc1]
  IN  IF rejected
      THEN IF type = "culture"
           THEN [st EXCEPT !.dom.cultureChecked = @ \ {skill}]
           ELSE [st EXCEPT !.dom.careerChecked = @ \ {skill}]
      ELSE renderCharacterSummary(buildSkillsTable(
             updateSkillTotals(updateSkillPoolsDisplay(
               [st EXCEPT !.character = c1]))))

\* Change event of a professional-skill checkbox (`checked` is the state
\* the click produced).  A fourth selection unchecks the box and returns;
\* otherwise the skill is added or removed, every unselected professional
\* skill of that side loses its points of that pool, and the table is
\* rebuilt.
onProfessionalSelectionChange(st, type, skill, checked) ==
  LET c == st.character
      arr == IF type = "culture" THEN c.selectedCulturePro
             ELSE c.selectedCareerPro
      rejected == checked /\ ~includes(arr, skill) /\ ~(Len(arr) < 3)
      arr1 == IF checked
              THEN (IF includes(arr, skill) THEN arr ELSE Append(arr, skill))
              ELSE spliceOut(arr, skill)
      proList == IF type = "culture" THEN cultures[c.culture].professional
                 ELSE careers[c.career].professional
      unselected == Range(proList) \ Range(arr1)
      alloc1 == [s \in allSkills |->
                   IF s \in unselected
                   THEN [c.skillAllocations[s] EXCEPT ![type] = 0]
                   ELSE c.skillAllocations[s]]
      c1 == IF type = "culture"
            THEN [c EXCEPT !.selectedCulturePro = arr1,
                           !.skillAllocations = alloc1]
            ELSE [c EXCEPT !.selectedCareerPro = arr1,
                           !.skillAllocations = alloc1]
  IN  IF rejected
      THEN IF type = "culture"
           THEN [st EXCEPT !.dom.cultureChecked = @ \ {skill}]
           ELSE [st EXCEPT !.dom.careerChecked = @ \ {skill}]
      ELSE renderCharacterSummary(buildSkillsTable(
             updateSkillTotals(updateSkillPoolsDisplay(
               [st EXCEPT !.character = c1]))))

\* onAgeChange without the reset of lines 1158-1160: the bonus allocations
\* made under the previous age category are kept.
onAgeChangeKeepingBonus(st, cat) ==
  renderCharacterSummary(updateSkillTotals(updateSkillPoolsDisplay(
    [st EXCEPT
       !.character.ageCat = cat,
       !.character.skillPools.bonus = ageCategories[cat].bonus,
       !.character.skillCaps.bonus = ageCategories[cat].max])))

\* Change event of the age select.
onAgeChange(st, cat) ==
  renderCharacterSummary(updateSkillTotals(updateSkillPoolsDisplay(
    [st EXCEPT
       !.character.ageCat = cat,
       !.character.skillPools.bonus = ageCategories[cat].bonus,
       !.character.skillCaps.bonus = ageCategories[cat].max,
       !.character.skillAllocations =
          [s \in allSkills |-> [@[s] EXCEPT !.bonus = 0]]])))

\* Change event of the culture select or of the career select; the handler
\* reads both selects.  The summary is refreshed before the social-class
\* and bonus-skill selects are rebuilt.
onCultureOrCareerChange(st, cultureValue, careerValue) ==
  LET cultureDefNew == cultures[cultureValue]
      careerDefNew == careers[careerValue]
      inCulture == Range(cultureDefNew.standard)
                     \cup Range(cultureDefNew.professional)
      inCareer == Range(careerDefNew.standard)
                    \cup Range(careerDefNew.professional)
      st1 == [st EXCEPT
                !.character.culture = cultureValue,
                !.character.career = careerValue,
                !.character.skillAllocations =
                   [s \in allSkills |->
                      [@[s] EXCEPT
                         !.culture = IF s \notin inCulture THEN 0 ELSE @,
                         !.career = IF s \notin inCareer THEN 0 ELSE @]]]
      st2 == populateProfessionalOptions(st1)
      st3 == applyCultureMinimums(st2)
      st4 == renderCharacterSummary(buildSkillsTable(st3))
      st5 == populateSocialClassSelect(st4)
  IN  populateBonusSkillSelect(st5)

\* Change event of the social-class select.
onSocialClassChange(st, value) ==
  renderCharacterSummary([st EXCEPT !.character.socialClass = value])

\* Change event of the bonus-skill select: the previous bonus skill loses
\* its bonus points and the table is rebuilt.
onBonusSkillChange(st, val) ==
  LET old == st.character.bonusSkill
      st1 == IF old # "" /\ old # val
             THEN [st EXCEPT !.character.skillAllocations[old].bonus = 0]
             ELSE st
  IN  renderCharacterSummary(
        buildSkillsTable([st1 EXCEPT !.character.bonusSkill = val]))

\* Input event of the characteristic input of `key` holding `text`: an
\* unreadable entry counts as 3 and the value is kept within 3..21.
onAttributeInput(st, key, text) ==
  LET parsed == parseInt(text)
      val == IF parsed.isNaN THEN 3 ELSE parsed.n
      clamped == Min(Max(val, 3), 21)
      st1 == [st EXCEPT !.character.attributes[key] = clamped]
  IN  updateSkillBases(updateDerived(updatePointPoolInfo(st1)))

\* rollAttributes of script.js: every characteristic takes the total of
\* rollDice(3, 6) that `rolls` gives it, and the inputs are rebuilt.
scriptRollAttributes(st, rolls) ==
  LET st1 == [st EXCEPT !.character.attributes =
                [key \in DOMAIN @ |-> rolls[key]]]
  IN  updateSkillBases(updateDerived(buildAttributeInputs(st1)))

\* Change event of the method select, now holding `value`; `rolls` are the
\* dice of the roll method.
onMethodChange(st, value, rolls) ==
  LET st0 == [st EXCEPT !.dom.method = value]
      st1 == IF value = "roll"
             THEN [scriptRollAttributes(st0, rolls) EXCEPT
                     !.dom.attrDisabled = TRUE,
                     !.dom.poolDisabled = TRUE]
             ELSE [st0 EXCEPT !.dom.attrDisabled = FALSE,
                              !.dom.poolDisabled = FALSE]
  IN  renderCharacterSummary(
        updateSkillBases(updateDerived(updatePointPoolInfo(st1))))

\* Input event of the pool-size input holding `text`: an unreadable entry
\* counts as 75 and the size is kept within 60..120.
onPoolSizeInput(st, text) ==
  LET parsed == parseInt(text)
      val == IF parsed.isNaN THEN 75 ELSE parsed.n
  IN  updatePointPoolInfo(
        [st EXCEPT !.character.pool = Min(Max(val, 60), 120)])

\* Input event of the name input: only the character is written.
onNameInput(st, value) ==
  [st EXCEPT !.character.name = value]

\* Change event of the combat-style select: only the character is written.
onCombatStyleChange(st, value) ==
  [st EXCEPT !.character.combatStyle = value]

\* init(): the selects, the characteristic inputs, the derived values, the
\* culture minimums, the table, the professional options, the bonus-skill
\* options, the equipment list and the summary, in the order init() builds
\* them.
init ==
  LET st0 == [character |-> characterLiteral, dom |-> emptyDom]
      st1 == populateSocialClassSelect(st0)
      st1a == updateDerived(buildAttributeInputs(st1))
      st2 == applyCultureMinimums(st1a)
      st3 == buildSkillsTable(st2)
      st4 == populateProfessionalOptions(st3)
      st5 == populateBonusSkillSelect(st4)
  IN  renderCharacterSummary(buildEquipmentList(st5))

\* The browser flips the checkbox before the change handler runs.
clickProfessionalBox(st, type, skill) ==
  LET boxes == IF type = "culture" THEN st.dom.cultureChecked
               ELSE st.dom.careerChecked
      checked == skill \notin boxes
      flipped == IF checked THEN boxes \cup {skill} ELSE boxes \ {skill}
      st1 == IF type = "culture"
             THEN [st EXCEPT !.dom.cultureChecked = flipped]
             ELSE [st EXCEPT !.dom.careerChecked = flipped]
  IN  onProfessionalSelectionChange(st1, type, skill, checked)


\* ------------------------------------------------------------------
\* The multi-step form of main.js.  It is a page of its own: in its
\* sessions `character` holds the character object of main.js and `dom`
\* the step the form shows.

\* The skill names of data/skills.json that the sessions use; the file is
\* loaded by loadData and is not part of the sources.
skillsData == {"Athletics", "Brawn", "Lore"}

\* The items of data/equipment.json that the sessions use, with their cost.
equipmentData == [Dagger |-> 20, Rope |-> 10]

\* The character object of main.js.  An allocation object without a key
\* for a skill reads as 0 wherever it is read (alloc[skill] || 0).
mainCharacter ==
  [ concept |-> [culture |-> "", career |-> ""],
    attributesSet |-> FALSE,
    skillAlloc |-> [culture |-> [s \in skillsData |-> 0],
                    career |-> [s \in skillsData |-> 0],
                    bonus |-> [s \in skillsData |-> 0],
                    hobby |-> ""],
    equipment |-> [i \in DOMAIN equipmentData |-> 0],
    startingSp |-> 0 ]

\* The limit of each allocation table.
tableLimit == [culture |-> 100, career |-> 100, bonus |-> 150]

\* Sum of the values of an allocation object.
spentOf(alloc) ==
  SumOver({ s \in DOMAIN alloc : alloc[s] # 0 }, alloc)

computePointsLeft(alloc, limit) ==
  LET left == limit - spentOf(alloc)
  IN  IF left < 0 THEN 0 ELSE left

\* parseInt(input.value || '0', 10) of a number input.
parseIntOrZero(text) ==
  IF text = "" THEN 0 ELSE parseInt(text).n

\* Input event of the allocation input of `skillName` in the table built
\* over character.skillAlloc[table].
allocInput(st, table, skillName, text) ==
  LET limit == tableLimit[table]
      val == parseIntOrZero(text)
      allocObj == [st.character.skillAlloc[table] EXCEPT ![skillName] = val]
      left == computePointsLeft(allocObj, limit)
      overspend == spentOf(allocObj) - limit
      final == IF left < 0
               THEN [allocObj EXCEPT ![skillName] = Max(0, val - overspend)]
               ELSE allocObj
  IN  [st EXCEPT !.character.skillAlloc[table] = final]

\* Input event of the quantity input of an equipment item.
qtyInput(st, item, text) ==
  LET parsed == parseIntOrZero(text)
      val == IF parsed < 0 THEN 0 ELSE parsed
  IN  [st EXCEPT !.character.equipment[item] = val]

\* Input event of the starting-silver input.
startingSpInput(st, text) ==
  [st EXCEPT !.character.startingSp = parseIntOrZero(text)]

\* Change event of the hobby-skill select.
hobbySkillChange(st, value) ==
  [st EXCEPT !.character.skillAlloc.hobby = value]

\* The total cost renderReview sums: the items with a positive quantity.
totalCost(c) ==
  SumOver({ i \in DOMAIN equipmentData : c.equipment[i] > 0 },
          [i \in DOMAIN equipmentData |-> c.equipment[i] * equipmentData[i]])

\* The 'Silver Remaining' line of renderReview.
silverRemaining(c) == c.startingSp - totalCost(c)

\* Click on "next" of the concept step: the concept is stored and the
\* allocations start empty.
nextToAttributes(st, cultureKey, careerKey) ==
  [st EXCEPT
     !.character.concept = [culture |-> cultureKey, career |-> careerKey],
     !.character.skillAlloc = mainCharacter.skillAlloc,
     !.dom.step = "attributes"]

\* Click on the roll button: every attribute gets a positive value.
rollAttributes(st) == [st EXCEPT !.character.attributesSet = TRUE]

\* The steps that follow one another through the "next" buttons.
stepAfter ==
  [attributes |-> "culture", culture |-> "career", career |-> "bonus",
   bonus |-> "equipment", equipment |-> "review"]

showStep(st, step) == [st EXCEPT !.dom.step = step]
----------------------------------------------------------------------------
(* Inputs the user is given in the checked sessions.                       *)

\* Number of user events in a session of Spec.
MaxEvents == 4

\* Number of user events in a session of SpecShort.
MaxShortEvents == 3

\* Number of user events in a session of SpecPool.
MaxPoolEvents == 7

\* Cultures, careers and age categories the user switches between.
CultureKeys == {"Barbarian", "Nomadic"}
CareerKeys == {"Agent", "Mechanic", "Bounty Hunter", "Priest"}
AgeKeys == {"Adult", "Young"}

\* Allocation inputs the user types into, and the texts typed.
EditTargets ==
  { <<"Athletics", "culture">>, <<"Lore", "culture">>,
    <<"Culture", "career">>, <<"Customs", "career">>,
    <<"Athletics", "bonus">> }
EditTexts == {"", "-3", "3", "90"}

\* Professional-skill checkboxes the user clicks, by position in the list.
TogglePositions == 2..4

\* Bonus-skill options and social classes (by position) the user picks.
BonusChoices == {"Commerce"}
ClassPositions == 1..2

\* Culture inputs typed into in the sessions that spend the culture pool.
PoolEditSkills ==
  {"Athletics", "Endurance", "Locale", "Perception", "Ride", "Craft"}

----------------------------------------------------------------------------
(* Actions: one user event each, applied to the current page.              *)

state == [character |-> character, dom |-> dom]

\* One user event: the handler's result becomes the page, and the session
\* has one event less to go.
Apply(st, event) ==
  /\ budget > 0
  /\ budget' = budget - 1
  /\ character' = st.character
  /\ dom' = st.dom
  /\ lastEvent' = event

Init ==
  /\ character = init.character
  /\ dom = init.dom
  /\ lastEvent = [op |-> "init", arg |-> ""]
  /\ budget = MaxEvents

InitShort ==
  /\ character = init.character
  /\ dom = init.dom
  /\ lastEvent = [op |-> "init", arg |-> ""]
  /\ budget = MaxShortEvents

InitPool ==
  /\ character = init.character
  /\ dom = init.dom
  /\ lastEvent = [op |-> "init", arg |-> ""]
  /\ budget = MaxPoolEvents

\* The professional list and the selection of one side.
proListOf(c, type) ==
  IF type = "culture" THEN cultures[c.culture].professional
  ELSE careers[c.career].professional

selectedOf(c, type) ==
  IF type = "culture" THEN c.selectedCulturePro ELSE c.selectedCareerPro

\* Typing `text` into an allocation input that exists and is enabled.
SkillInput(skill, poolName, text) ==
  /\ skill \in dom.rows
  /\ <<skill, poolName>> \notin dom.disabled
  /\ Apply(onSkillInputChange(state, skill, poolName, text),
           [op |-> "skillInput", arg |-> skill])

\* Clicking the checkbox of `skill` in the list of one side.
ProfessionalToggle(type, skill) ==
  /\ includes(proListOf(character, type), skill)
  /\ Apply(clickProfessionalBox(state, type, skill),
           [op |-> "toggle", arg |-> skill])

AgeChange(cat) ==
  /\ cat # character.ageCat
  /\ Apply(onAgeChange(state, cat), [op |-> "age", arg |-> cat])

CultureChange(key) ==
  /\ key # character.culture
  /\ Apply(onCultureOrCareerChange(state, key, character.career),
           [op |-> "culture", arg |-> key])

CareerChange(key) ==
  /\ key # character.career
  /\ Apply(onCultureOrCareerChange(state, character.culture, key),
           [op |-> "career", arg |-> key])

SocialClassChange(value) ==
  /\ value # character.socialClass
  /\ \E i \in 1..Len(socialClassesByCulture[character.culture]) :
        socialClassesByCulture[character.culture][i].name = value
  /\ Apply(onSocialClassChange(state, value),
           [op |-> "socialClass", arg |-> value])

BonusSkillChange(val) ==
  /\ val # character.bonusSkill
  /\ val \in dom.bonusOptions \cup {""}
  /\ Apply(onBonusSkillChange(state, val), [op |-> "bonusSkill", arg |-> val])

ToggleSkills(type) ==
  LET list == proListOf(character, type)
  IN  { list[i] : i \in TogglePositions \cap (1..Len(list)) }

ClassChoices ==
  LET classes == socialClassesByCulture[character.culture]
  IN  { classes[i].name : i \in ClassPositions \cap (1..Len(classes)) }

Next ==
  \/ \E t \in EditTargets, text \in EditTexts : SkillInput(t[1], t[2], text)
  \/ \E type \in {"culture", "career"} :
       \E skill \in ToggleSkills(type) : ProfessionalToggle(type, skill)
  \/ \E cat \in AgeKeys : AgeChange(cat)
  \/ \E key \in CultureKeys : CultureChange(key)
  \/ \E key \in CareerKeys : CareerChange(key)
  \/ \E value \in ClassChoices : SocialClassChange(value)
  \/ \E val \in BonusChoices \cup {""} : BonusSkillChange(val)

Spec == Init /\ [][Next]_vars

\* The same events in shorter sessions, for the properties that apply a
\* handler to every reachable state.
SpecShort == InitShort /\ [][Next]_vars

\* Sessions that only spend culture points and change the culture.
NextPool ==
  \/ \E skill \in PoolEditSkills : SkillInput(skill, "culture", "90")
  \/ \E key \in CultureKeys : CultureChange(key)

SpecPool == InitPool /\ [][NextPool]_vars


\* ------------------------------------------------------------------
\* Sessions in the equipment section (script.js)

\* Number of user events in a session of SpecMoney.
MaxMoneyEvents == 5

\* The equipment boxes the sessions click.
ShopItems == {"Dagger", "Short Sword", "Chain Mail", "Bedroll"}

\* The dice totals the sessions roll, when the culture's dice can show them.
RollTotals == {1, 2, 4, 7}

InitMoney ==
  /\ character = init.character
  /\ dom = init.dom
  /\ lastEvent = [op |-> "init", arg |-> ""]
  /\ budget = MaxMoneyEvents

\* Clicking the checkbox of an equipment item.
EquipmentToggle(name) ==
  Apply(clickEquipmentBox(state, name), [op |-> "equipment", arg |-> name])

\* Clicking the roll-silver button.
RollSilver(roll) ==
  /\ roll \in rollDice(silverDice(character.culture).n,
                       silverDice(character.culture).s)
  /\ Apply(generateStartingSilver(state, roll),
           [op |-> "rollSilver", arg |-> ""])

NextMoney ==
  \/ \E name \in ShopItems : EquipmentToggle(name)
  \/ \E roll \in RollTotals : RollSilver(roll)
  \/ \E key \in CultureKeys : CultureChange(key)
  \/ \E value \in ClassChoices : SocialClassChange(value)

SpecMoney == InitMoney /\ [][NextMoney]_vars

\* ------------------------------------------------------------------
\* Sessions around the bonus skill (script.js)

\* Number of user events in a session of SpecBonus.
MaxBonusEvents == 4

\* The options of the bonus-skill select the sessions choose.
BonusPicks == {"Commerce", "Art"}

\* The texts typed into the bonus input of the chosen bonus skill.
BonusTexts == {"7", "90"}

InitBonus ==
  /\ character = init.character
  /\ dom = init.dom
  /\ lastEvent = [op |-> "init", arg |-> ""]
  /\ budget = MaxBonusEvents

NextBonus ==
  \/ \E val \in BonusPicks \cup {""} : BonusSkillChange(val)
  \/ \E skill \in BonusPicks \cup {"Athletics"}, text \in BonusTexts :
       SkillInput(skill, "bonus", text)
  \/ \E key \in CareerKeys : CareerChange(key)
  \/ \E type \in {"culture", "career"} :
       \E skill \in ToggleSkills(type) : ProfessionalToggle(type, skill)
  \/ \E cat \in AgeKeys : AgeChange(cat)

SpecBonus == InitBonus /\ [][NextBonus]_vars

\* ------------------------------------------------------------------
\* Sessions of the multi-step form (main.js)

\* Number of user events in a session of SpecMain.
MaxMainEvents == 8

\* The texts typed into the number inputs of the form.
MainTexts == {"", "-3", "15", "90"}

\* The skills whose inputs the sessions type into.
MainEditSkills == {"Athletics", "Brawn"}

InitMain ==
  /\ character = mainCharacter
  /\ dom = [step |-> "concept"]
  /\ lastEvent = [op |-> "load", arg |-> ""]
  /\ budget = MaxMainEvents

\* "Next" on the concept step, a culture and a career being selected.
NextToAttributes ==
  /\ dom.step = "concept"
  /\ Apply(nextToAttributes(state, "culture", "career"),
           [op |-> "next", arg |-> "attributes"])

RollAttributes ==
  /\ dom.step = "attributes"
  /\ ~character.attributesSet
  /\ Apply(rollAttributes(state), [op |-> "roll", arg |-> ""])

\* "Next" on a later step.  The step after attributes needs the attributes
\* set; leaving an allocation step with points left asks for a confirmation
\* the user gives.
NextStep ==
  /\ dom.step \in DOMAIN stepAfter
  /\ dom.step = "attributes" => character.attributesSet
  /\ Apply(showStep(state, stepAfter[dom.step]),
           [op |-> "next", arg |-> stepAfter[dom.step]])

AllocInput(table, skillName, text) ==
  /\ dom.step = table
  /\ Apply(allocInput(state, table, skillName, text),
           [op |-> "allocInput", arg |-> skillName])

HobbySkillChange(value) ==
  /\ dom.step = "bonus"
  /\ value # character.skillAlloc.hobby
  /\ Apply(hobbySkillChange(state, value), [op |-> "hobby", arg |-> value])

QtyInput(item, text) ==
  /\ dom.step = "equipment"
  /\ Apply(qtyInput(state, item, text), [op |-> "qtyInput", arg |-> item])

StartingSpInput(text) ==
  /\ dom.step = "equipment"
  /\ Apply(startingSpInput(state, text), [op |-> "startingSp", arg |-> text])

NextMain ==
  \/ NextToAttributes
  \/ RollAttributes
  \/ NextStep
  \/ \E table \in DOMAIN tableLimit, s \in MainEditSkills, text \in MainTexts :
       AllocInput(table, s, text)
  \/ \E value \in skillsData : HobbySkillChange(value)
  \/ \E item \in DOMAIN equipmentData, text \in MainTexts : QtyInput(item, text)
  \/ \E text \in MainTexts : StartingSpInput(text)

SpecMain == InitMain /\ [][NextMain]_vars

\* ------------------------------------------------------------------
\* Calls of the derived-statistic functions

\* Number of calls in a session of SpecDerived.
MaxDerivedEvents == 2

\* The largest total a session passes to a function.
MaxTotal == 135

\* The totals of characteristics the functions are called with.
DerivedTotals == 0..MaxTotal

\* A session holds one total and the outcome of the last call on it.
InitDerived ==
  /\ character \in [total : DerivedTotals]
  /\ dom = [threw |-> FALSE, value |-> << >>]
  /\ lastEvent = [op |-> "load", arg |-> ""]
  /\ budget = MaxDerivedEvents

\* A call that returned value.
returned(value) ==
  [character |-> character, dom |-> [threw |-> FALSE, value |-> value]]

DamageModifier ==
  Apply(returned(damageModifier(character.total)),
        [op |-> "damageModifier", arg |-> ""])

ExperienceModifier ==
  Apply(returned(experienceModifier(character.total)),
        [op |-> "experienceModifier", arg |-> ""])

HealingRate ==
  Apply(returned(healingRate(character.total)),
        [op |-> "healingRate", arg |-> ""])

LuckPoints ==
  Apply(returned(luckPoints(character.total)),
        [op |-> "luckPoints", arg |-> ""])

HitPointsPerLocation ==
  LET hp == hitPointsPerLocation(character.total)
  IN  Apply([character |-> character,
             dom |-> [threw |-> hp.threw, value |-> hp]],
            [op |-> "hitPointsPerLocation", arg |-> ""])

DamageMod ==
  Apply(returned(damageMod(character.total)),
        [op |-> "damageMod", arg |-> ""])

NextDerived ==
  \/ DamageModifier
  \/ ExperienceModifier
  \/ HealingRate
  \/ LuckPoints
  \/ HitPointsPerLocation
  \/ DamageMod

SpecDerived == InitDerived /\ [][NextDerived]_vars

\* ------------------------------------------------------------------
\* Sessions in the characteristics section (script.js)

\* Number of user events in a session of SpecAttr.
MaxAttrEvents == 3

\* The values of the method select that the handlers test for.
methodOptions == {"roll", "point"}

\* The characteristic inputs the sessions type into.
AttrEditKeys == {"STR", "SIZ", "INT"}

\* The texts typed into a characteristic input.
AttrTexts == {"", "7", "90"}

\* The texts typed into the pool-size input.
PoolSizeTexts == {"", "3", "90"}

\* The dice of a roll: one total for SIZ and INT, one for the other five.
AttrRolls ==
  { [key \in Range(attributeKeys) |->
       IF key \in {"SIZ", "INT"} THEN b ELSE a] : a \in {3, 18}, b \in {5, 12} }

\* The page after init(), with either option of the method select chosen
\* by the page.
InitAttr ==
  /\ \E m \in methodOptions :
       LET st == updatePointPoolInfo([init EXCEPT !.dom.method = m])
       IN  character = st.character /\ dom = st.dom
  /\ lastEvent = [op |-> "init", arg |-> ""]
  /\ budget = MaxAttrEvents

\* Typing into an enabled characteristic input.
AttributeInput(key, text) ==
  /\ ~dom.attrDisabled
  /\ Apply(onAttributeInput(state, key, text),
           [op |-> "attribute", arg |-> key])

\* Choosing the other option of the method select.
MethodChange(value, rolls) ==
  /\ value # dom.method
  /\ \A key \in DOMAIN rolls : rolls[key] \in rollDice(3, 6)
  /\ Apply(onMethodChange(state, value, rolls),
           [op |-> "method", arg |-> value])

\* Typing into the enabled pool-size input.
PoolSizeInput(text) ==
  /\ ~dom.poolDisabled
  /\ Apply(onPoolSizeInput(state, text), [op |-> "poolSize", arg |-> text])

NextAttr ==
  \/ \E key \in AttrEditKeys, text \in AttrTexts : AttributeInput(key, text)
  \/ \E value \in methodOptions, rolls \in AttrRolls :
       MethodChange(value, rolls)
  \/ \E text \in PoolSizeTexts : PoolSizeInput(text)

SpecAttr == InitAttr /\ [][NextAttr]_vars

\* ------------------------------------------------------------------
\* Sessions that spend the culture pool and lower the characteristics
\* (script.js)

\* Number of user events in a session of SpecTotals.
MaxTotalsEvents == 9

\* Culture inputs typed into in these sessions.
TotalsEditSkills ==
  {"Athletics", "Endurance", "Locale", "Perception", "Ride", "First Aid",
   "Stealth"}

\* The dice of the roll of these sessions: 3 for every characteristic.
LowRolls == { [key \in Range(attributeKeys) |-> 3] }

InitTotals ==
  /\ character = init.character
  /\ dom = init.dom
  /\ lastEvent = [op |-> "init", arg |-> ""]
  /\ budget = MaxTotalsEvents

NextTotals ==
  \/ \E skill \in TotalsEditSkills : SkillInput(skill, "culture", "90")
  \/ \E key \in CultureKeys : CultureChange(key)
  \/ \E rolls \in LowRolls : MethodChange("roll", rolls)

SpecTotals == InitTotals /\ [][NextTotals]_vars

\* ------------------------------------------------------------------
\* Sessions over every section that feeds the summary (script.js)

\* Number of user events in a session of SpecSheet.
MaxSheetEvents == 3

\* The names typed and the combat styles and careers chosen.
SheetNames == {"Anathaym", ""}
SheetStyles == {"Sword & Shield", "Great Axe"}
SheetCareers == {"Agent", "Mechanic"}

InitSheet ==
  /\ character = init.character
  /\ dom = init.dom
  /\ lastEvent = [op |-> "init", arg |-> ""]
  /\ budget = MaxSheetEvents

\* Typing in the name input.
NameInput(value) ==
  /\ value # character.name
  /\ Apply(onNameInput(state, value), [op |-> "name", arg |-> value])

\* Choosing another option of the combat-style select.
CombatStyleChange(value) ==
  /\ value # character.combatStyle
  /\ includes(combatStyles, value)
  /\ Apply(onCombatStyleChange(state, value),
           [op |-> "combatStyle", arg |-> value])

NextSheet ==
  \/ \E value \in SheetNames : NameInput(value)
  \/ \E value \in SheetStyles : CombatStyleChange(value)
  \/ \E key \in CultureKeys : CultureChange(key)
  \/ \E key \in SheetCareers : CareerChange(key)
  \/ \E cat \in AgeKeys : AgeChange(cat)
  \/ \E value \in ClassChoices : SocialClassChange(value)
  \/ \E val \in BonusChoices \cup {""} : BonusSkillChange(val)
  \/ \E text \in EditTexts : SkillInput("Athletics", "culture", text)
  \/ \E skill \in ToggleSkills("culture") : ProfessionalToggle("culture", skill)
  \/ \E name \in ShopItems : EquipmentToggle(name)
  \/ \E roll \in RollTotals : RollSilver(roll)

SpecSheet == InitSheet /\ [][NextSheet]_vars

\* ------------------------------------------------------------------
\* The derived statistics of the review page of main.js

\* The experience modifier renderReview computes from CHA.
expMod(cha) ==
  IF cha <= 6 THEN 0 - 1
  ELSE IF cha <= 12 THEN 0
  ELSE IF cha <= 18 THEN 1
  ELSE 1 + ((cha - 18) \div 6)

\* The healing rate renderReview computes from CON.
healRate(con) ==
  IF con <= 6 THEN 1
  ELSE IF con <= 12 THEN 2
  ELSE IF con <= 18 THEN 3
  ELSE 3 + ((con - 18) \div 6)

\* The luck points renderReview computes from POW.
luck(pow) ==
  IF pow <= 6 THEN 1
  ELSE IF pow <= 12 THEN 2
  ELSE IF pow <= 18 THEN 3
  ELSE 3 + ((pow - 18) \div 6)

\* The derived object renderReview builds from the attributes.
reviewDerived(attributes) ==
  [ actionPoints |-> 2,
    damageMod |-> damageMod(attributes.STR + attributes.SIZ),
    expMod |-> expMod(attributes.CHA),
    healingRate |-> healRate(attributes.CON),
    initiativeBonus |-> (attributes.DEX + attributes.INT) \div 2,
    magicPoints |-> attributes.POW,
    luckPoints |-> luck(attributes.POW),
    movementRate |-> 6 ]

\* Number of computations in a session of SpecReview.
MaxReviewEvents == 2

\* The characteristic values of a session, all within 3..21.
ReviewValues == {3, 12, 19}

\* A session holds one characteristic set and what each program derived
\* from it.
InitReview ==
  /\ character \in [attributes : [Range(attributeKeys) -> ReviewValues]]
  /\ dom = [main |-> << >>, script |-> << >>]
  /\ lastEvent = [op |-> "load", arg |-> ""]
  /\ budget = MaxReviewEvents

\* main.js shows the review page.
RenderReview ==
  Apply([character |-> character,
         dom |-> [dom EXCEPT !.main = << reviewDerived(character.attributes) >>]],
        [op |-> "renderReview", arg |-> ""])

\* script.js builds the derived part of its character data.
BuildDerived ==
  Apply([character |-> character,
         dom |-> [dom EXCEPT !.script = << derivedData(character) >>]],
        [op |-> "buildCharacterData", arg |-> ""])

NextReview ==
  \/ RenderReview
  \/ BuildDerived

SpecReview == InitReview /\ [][NextReview]_vars

\* ------------------------------------------------------------------
\* Snapshots of buildCharacterData in the hands of a collaborator
\* (script.js)

\* buildCharacterData returning character.attributes itself.
dataSharesAttributes ==
  [ attributes |-> TRUE,
    skills |-> FALSE,
    selectedCulturePro |-> FALSE,
    selectedCareerPro |-> FALSE,
    equipment |-> FALSE,
    equipmentEntries |-> FALSE ]

\* For every mutable part of the object buildCharacterData returns,
\* whether it is the character's own object: attributes is
\* Object.assign({}, ...), the selected lists are slice() copies,
\* equipment is a map() to new entry objects, and every skills entry is a
\* new object of numbers.
dataShares ==
  [ attributes |-> FALSE,
    skills |-> FALSE,
    selectedCulturePro |-> FALSE,
    selectedCareerPro |-> FALSE,
    equipment |-> FALSE,
    equipmentEntries |-> FALSE ]

\* The snapshot handed out: the returned object and its sharing.
snapshotOf(c) == [value |-> buildCharacterData(c), shares |-> dataShares]

\* snapshot.attributes[key] = v
setDataAttribute(st, key, v) ==
  LET snap == st.dom.data[1]
      st1 == [st EXCEPT !.dom.data[1].value.attributes[key] = v]
  IN  IF snap.shares.attributes
      THEN [st1 EXCEPT !.character.attributes[key] = v]
      ELSE st1

\* snapshot.skills[skill][poolName] = v
setDataSkill(st, skill, poolName, v) ==
  LET snap == st.dom.data[1]
      st1 == [st EXCEPT !.dom.data[1].value.skills[skill][poolName] = v]
  IN  IF snap.shares.skills
      THEN [st1 EXCEPT !.character.skillAllocations[skill][poolName] = v]
      ELSE st1

\* snapshot.selectedCulturePro.push(skill), or the career list
pushDataSelected(st, type, skill) ==
  LET snap == st.dom.data[1]
  IN  IF type = "culture"
      THEN LET st1 == [st EXCEPT !.dom.data[1].value.selectedCulturePro =
                                   Append(@, skill)]
           IN  IF snap.shares.selectedCulturePro
               THEN [st1 EXCEPT !.character.selectedCulturePro =
                                  Append(@, skill)]
               ELSE st1
      ELSE LET st1 == [st EXCEPT !.dom.data[1].value.selectedCareerPro =
                                   Append(@, skill)]
           IN  IF snap.shares.selectedCareerPro
               THEN [st1 EXCEPT !.character.selectedCareerPro =
                                  Append(@, skill)]
               ELSE st1

\* snapshot.equipment[i].cost = v
setDataEquipmentCost(st, i, v) ==
  LET snap == st.dom.data[1]
      name == snap.value.equipment[i].name
      st1 == [st EXCEPT !.dom.data[1].value.equipment[i].cost = v]
  IN  IF snap.shares.equipmentEntries
      THEN [st1 EXCEPT !.character.equipment =
              [ j \in DOMAIN @ |->
                  IF @[j].name = name THEN [@[j] EXCEPT !.cost = v]
                  ELSE @[j] ]]
      ELSE st1

\* snapshot.equipment.pop()
popDataEquipment(st) ==
  LET snap == st.dom.data[1]
      st1 == [st EXCEPT !.dom.data[1].value.equipment =
                          SubSeq(@, 1, Len(@) - 1)]
  IN  IF snap.shares.equipment
      THEN [st1 EXCEPT !.character.equipment = SubSeq(@, 1, Len(@) - 1)]
      ELSE st1

\* Number of events in a session of SpecSnapshot.
MaxSnapshotEvents == 7

\* What the collaborator writes into a snapshot.
SnapshotKeys == {"STR"}
SnapshotSkills == {"Athletics"}
SnapshotItems == {"Dagger"}

InitSnapshot ==
  /\ character = init.character
  /\ dom = init.dom @@ [data |-> << >>]
  /\ lastEvent = [op |-> "init", arg |-> ""]
  /\ budget = MaxSnapshotEvents

\* A collaborator (an export, the summary) asks for the character data.
BuildCharacterData ==
  Apply([state EXCEPT !.dom.data = << snapshotOf(character) >>],
        [op |-> "buildCharacterData", arg |-> ""])

SetDataAttribute(key) ==
  /\ dom.data # << >>
  /\ Apply(setDataAttribute(state, key, 0),
           [op |-> "data.attributes", arg |-> key])

SetDataSkill(skill) ==
  /\ dom.data # << >>
  /\ Apply(setDataSkill(state, skill, "culture", 99),
           [op |-> "data.skills", arg |-> skill])

PushDataSelected(type, skill) ==
  /\ dom.data # << >>
  /\ Apply(pushDataSelected(state, type, skill),
           [op |-> "data.selected", arg |-> skill])

SetDataEquipmentCost ==
  /\ dom.data # << >>
  /\ dom.data[1].value.equipment # << >>
  /\ Apply(setDataEquipmentCost(state, 1, 0),
           [op |-> "data.equipment", arg |-> "cost"])

PopDataEquipment ==
  /\ dom.data # << >>
  /\ dom.data[1].value.equipment # << >>
  /\ Apply(popDataEquipment(state), [op |-> "data.equipment", arg |-> "pop"])

NextSnapshot ==
  \/ RollSilver(7)
  \/ \E name \in SnapshotItems : EquipmentToggle(name)
  \/ \E skill \in ToggleSkills("culture") : ProfessionalToggle("culture", skill)
  \/ BuildCharacterData
  \/ \E key \in SnapshotKeys : SetDataAttribute(key)
  \/ \E skill \in SnapshotSkills : SetDataSkill(skill)
  \/ \E type \in {"culture", "career"} : PushDataSelected(type, "Pilot")
  \/ SetDataEquipmentCost
  \/ PopDataEquipment

SpecSnapshot == InitSnapshot /\ [][NextSnapshot]_vars

\* ------------------------------------------------------------------
\* Sessions that empty a side's professional selection and then change
\* the other side's archetype (script.js)

\* Number of user events in a session of SpecSides.
MaxSidesEvents == 4

\* The careers switched between and the text typed into an input.
SidesCareers == {"Agent", "Mechanic"}
SidesTexts == {"7"}

\* The skills a side has selected.
SelectedSkills(type) == Range(selectedOf(character, type))

InitSides ==
  /\ character = init.character
  /\ dom = init.dom
  /\ lastEvent = [op |-> "init", arg |-> ""]
  /\ budget = MaxSidesEvents

NextSides ==
  \/ \E type \in {"culture", "career"} :
       \E skill \in SelectedSkills(type) : ProfessionalToggle(type, skill)
  \/ \E key \in SidesCareers : CareerChange(key)
  \/ \E key \in CultureKeys : CultureChange(key)
  \/ \E text \in SidesTexts : SkillInput("Athletics", "culture", text)

SpecSides == InitSides /\ [][NextSides]_vars

\* ------------------------------------------------------------------
\* Sessions over the culture and social-class selects and the silver roll
\* (script.js)

\* Number of user events in a session of SpecClass.
MaxClassEvents == 4

\* Every social class of the selected culture.
EveryClass ==
  LET classes == socialClassesByCulture[character.culture]
  IN  { classes[i].name : i \in 1..Len(classes) }

\* The totals of the dice of the silver roll.
ClassRolls == {2, 12}

InitClass ==
  /\ character = init.character
  /\ dom = init.dom
  /\ lastEvent = [op |-> "init", arg |-> ""]
  /\ budget = MaxClassEvents

NextClass ==
  \/ \E key \in DOMAIN cultures : CultureChange(key)
  \/ \E value \in EveryClass : SocialClassChange(value)
  \/ \E roll \in ClassRolls : RollSilver(roll)

SpecClass == InitClass /\ [][NextClass]_vars

\* ------------------------------------------------------------------
\* The steps of the form of main.js and its "Next" buttons

\* The steps in the order of the form.
wizardSteps ==
  << "concept", "attributes", "culture", "career", "bonus", "equipment",
     "review" >>

\* The character object of main.js with its seven attributes; the base
\* skills recomputeBaseSkills derives from them are not kept.
wizardCharacter ==
  [ concept |-> [culture |-> "", career |-> ""],
    attributes |-> [key \in Range(attributeKeys) |-> 0],
    skillAlloc |-> mainCharacter.skillAlloc,
    equipment |-> mainCharacter.equipment,
    startingSp |-> 0 ]

\* Click on "next" of the concept step: without a culture or a career the
\* click is refused, otherwise the concept is stored, the allocations
\* start empty and the attributes step is shown.
clickNextToAttributes(st) ==
  LET cultureKey == st.dom.cultureSelect
      careerKey == st.dom.careerSelect
  IN  IF cultureKey = "" \/ careerKey = "" THEN st
      ELSE showStep(
             [st EXCEPT
                !.character.concept =
                   [culture |-> cultureKey, career |-> careerKey],
                !.character.skillAlloc = mainCharacter.skillAlloc],
             "attributes")

\* Input event of an attribute input.
attributeInput(st, attr, text) ==
  [st EXCEPT !.character.attributes[attr] = parseIntOrZero(text)]

\* rollAttributes of main.js with the dice totals `rolls`.
rollAttributesTo(st, rolls) == [st EXCEPT !.character.attributes = rolls]

\* "Next" of the attributes step without the test of lines 576-580.
clickNextToSkillsUnchecked(st) == showStep(st, "culture")

\* Click on "next" of the attributes step: refused while an attribute is
\* 0 or less.
clickNextToSkills(st) ==
  LET missing == \E key \in Range(attributeKeys) :
                   st.character.attributes[key] <= 0
  IN  IF missing THEN st ELSE showStep(st, "culture")

\* Click on "next" of an allocation step: with points left the user is
\* asked, and a refusal leaves the step.
clickNextFromTable(st, table, confirmed) ==
  IF computePointsLeft(st.character.skillAlloc[table], tableLimit[table]) > 0
       /\ ~confirmed
  THEN st
  ELSE showStep(st, stepAfter[table])

\* Input event of the starting-silver input, which keeps its text.
startingSpTyped(st, text) ==
  startingSpInput([st EXCEPT !.dom.startingSpText = text], text)

\* Click on "next" of the equipment step: the silver is read again and the
\* review is shown.
clickNextToReview(st) ==
  showStep([st EXCEPT !.character.startingSp =
                         parseIntOrZero(st.dom.startingSpText)],
           "review")

\* Number of user events in a session of SpecWizard.
MaxWizardEvents == 10

\* The option values of the culture and career selects, "" being a
\* placeholder option, and the texts typed.
WizardOptions == {"", "key"}
WizardAttrs == {"STR", "CHA"}
WizardAttrTexts == {"", "-3", "15"}
WizardRolls ==
  { [key \in Range(attributeKeys) |->
       IF key \in {"SIZ", "INT"} THEN 8 ELSE 3] }
WizardAllocTexts == {"90"}

\* The page after loading, whichever option the selects show first.  The
\* start-over button reloads the page, which ends the session.
InitWizard ==
  /\ character = wizardCharacter
  /\ dom \in [step : {"concept"}, cultureSelect : WizardOptions,
              careerSelect : WizardOptions, startingSpText : {""}]
  /\ lastEvent = [op |-> "load", arg |-> ""]
  /\ budget = MaxWizardEvents

\* A click on the "next" button of the visible step.
clicked(confirmed) ==
  [op |-> "next", arg |-> [step |-> dom.step, confirmed |-> confirmed]]

SelectCulture(value) ==
  /\ dom.step = "concept"
  /\ value # dom.cultureSelect
  /\ Apply([state EXCEPT !.dom.cultureSelect = value],
           [op |-> "cultureSelect", arg |-> value])

SelectCareer(value) ==
  /\ dom.step = "concept"
  /\ value # dom.careerSelect
  /\ Apply([state EXCEPT !.dom.careerSelect = value],
           [op |-> "careerSelect", arg |-> value])

ClickNextToAttributes ==
  /\ dom.step = "concept"
  /\ Apply(clickNextToAttributes(state), clicked(TRUE))

WizardAttributeInput(attr, text) ==
  /\ dom.step = "attributes"
  /\ Apply(attributeInput(state, attr, text),
           [op |-> "attributeInput", arg |-> attr])

WizardRoll(rolls) ==
  /\ dom.step = "attributes"
  /\ Apply(rollAttributesTo(state, rolls), [op |-> "roll", arg |-> ""])

ClickNextToSkills ==
  /\ dom.step = "attributes"
  /\ Apply(clickNextToSkills(state), clicked(TRUE))

WizardAllocInput(skillName, text) ==
  /\ dom.step \in DOMAIN tableLimit
  /\ Apply(allocInput(state, dom.step, skillName, text),
           [op |-> "allocInput", arg |-> skillName])

ClickNextFromTable(confirmed) ==
  /\ dom.step \in DOMAIN tableLimit
  /\ Apply(clickNextFromTable(state, dom.step, confirmed), clicked(confirmed))

WizardStartingSp(text) ==
  /\ dom.step = "equipment"
  /\ text # dom.startingSpText
  /\ Apply(startingSpTyped(state, text), [op |-> "startingSp", arg |-> text])

ClickNextToReview ==
  /\ dom.step = "equipment"
  /\ Apply(clickNextToReview(state), clicked(TRUE))

NextWizard ==
  \/ \E value \in WizardOptions : SelectCulture(value)
  \/ \E value \in WizardOptions : SelectCareer(value)
  \/ ClickNextToAttributes
  \/ \E attr \in WizardAttrs, text \in WizardAttrTexts :
       WizardAttributeInput(attr, text)
  \/ \E rolls \in WizardRolls : WizardRoll(rolls)
  \/ ClickNextToSkills
  \/ \E s \in MainEditSkills, text \in WizardAllocTexts :
       WizardAllocInput(s, text)
  \/ \E confirmed \in BOOLEAN : ClickNextFromTable(confirmed)
  \/ \E text \in WizardAllocTexts : WizardStartingSp(text)
  \/ ClickNextToReview

SpecWizard == InitWizard /\ [][NextWizard]_vars

\* ------------------------------------------------------------------
\* Start of the page of main.js: loadData and the registration of the
\* handlers.  In these sessions `character` holds which of the four data
\* objects are set and `dom` the progress of the start.

\* The four files loadData fetches, in the order it parses them.
dataFiles == << "skills", "cultures", "careers", "equipment" >>

\* The start with the handlers registered before the data is awaited.
initStepsHandlersFirst ==
  << "setupEventHandlers", "loadData", "populateSelects",
     "renderAttributeInputs", "recomputeBaseSkills" >>

\* The calls at the end of the async function, in order.
initSteps ==
  << "loadData", "populateSelects", "renderAttributeInputs",
     "recomputeBaseSkills", "setupEventHandlers" >>

\* The page when the async function reaches its last lines: no data, no
\* request sent, no handler registered.
loadStart ==
  [ character |-> [r \in Range(dataFiles) |-> "null"],
    dom |-> [ pc |-> 1,
              fetches |-> [r \in Range(dataFiles) |-> "unsent"],
              awaiting |-> "",
              parsed |-> 0,
              loads |-> 0,
              failed |-> FALSE,
              registered |-> FALSE,
              handlerRuns |-> 0,
              ranWithoutData |-> FALSE ] ]

\* The step the async function is at, "" once it has ended.
stepAt(st) ==
  IF st.dom.failed \/ st.dom.pc > Len(initSteps) THEN ""
  ELSE initSteps[st.dom.pc]

\* loadData is called: the four requests are sent together.
callLoadData(st) ==
  [st EXCEPT !.dom.fetches = [r \in Range(dataFiles) |-> "pending"],
             !.dom.awaiting = "all",
             !.dom.loads = @ + 1]

\* A request settles: it resolves with a response or rejects.
settleFetch(st, r, outcome) == [st EXCEPT !.dom.fetches[r] = outcome]

\* Promise.all settles: it rejects with the first rejection, which ends
\* the async function, and resolves once every request has resolved.
settleAll(st) ==
  IF \E r \in Range(dataFiles) : st.dom.fetches[r] = "rejected"
  THEN [st EXCEPT !.dom.failed = TRUE, !.dom.awaiting = ""]
  ELSE [st EXCEPT !.dom.awaiting = "json"]

\* One of the synchronous calls other than loadData.
runStep(st) ==
  [st EXCEPT !.dom.pc = @ + 1,
             !.dom.registered = @ \/ stepAt(st) = "setupEventHandlers"]

\* The async function runs on without interruption until it awaits the
\* requests of loadData or ends.
RECURSIVE advance(_)
advance(st) ==
  IF stepAt(st) = "" THEN st
  ELSE IF stepAt(st) = "loadData" THEN callLoadData(st)
  ELSE advance(runStep(st))

\* await res.json() of the next file: the data object is set, or the
\* rejection ends the async function; after the fourth loadData returns
\* and the calls after it run.
parseNext(st, outcome) ==
  LET r == dataFiles[st.dom.parsed + 1]
  IN  IF outcome = "rejected"
      THEN [st EXCEPT !.dom.failed = TRUE, !.dom.awaiting = ""]
      ELSE IF st.dom.parsed + 1 = Len(dataFiles)
           THEN advance([st EXCEPT !.character[r] = "loaded",
                                   !.dom.parsed = @ + 1,
                                   !.dom.awaiting = "",
                                   !.dom.pc = @ + 1])
           ELSE [st EXCEPT !.character[r] = "loaded",
                           !.dom.parsed = @ + 1]

\* The user clicks a button: its handler runs if one is registered.
userClick(st) ==
  IF st.dom.registered
  THEN [st EXCEPT !.dom.handlerRuns = @ + 1,
                  !.dom.ranWithoutData =
                     @ \/ \E r \in Range(dataFiles) : st.character[r] = "null"]
  ELSE st

\* Number of steps in a session of SpecLoad.
MaxLoadEvents == 11

\* The page once the script has run up to its first await.
InitLoad ==
  /\ character = advance(loadStart).character
  /\ dom = advance(loadStart).dom
  /\ lastEvent = [op |-> "script", arg |-> ""]
  /\ budget = MaxLoadEvents

SettleFetch(r, outcome) ==
  /\ dom.fetches[r] = "pending"
  /\ Apply(settleFetch(state, r, outcome), [op |-> "fetch", arg |-> r])

\* Promise.all settles once a request has rejected or all have resolved.
SettleAll ==
  /\ dom.awaiting = "all"
  /\ \/ \E r \in Range(dataFiles) : dom.fetches[r] = "rejected"
     \/ \A r \in Range(dataFiles) : dom.fetches[r] = "resolved"
  /\ Apply(settleAll(state), [op |-> "Promise.all", arg |-> ""])

ParseNext(outcome) ==
  /\ dom.awaiting = "json"
  /\ Apply(parseNext(state, outcome), [op |-> "json", arg |-> outcome])

UserClick ==
  Apply(userClick(state), [op |-> "click", arg |-> ""])

NextLoad ==
  \/ \E r \in Range(dataFiles), outcome \in {"resolved", "rejected"} :
       SettleFetch(r, outcome)
  \/ SettleAll
  \/ \E outcome \in {"resolved", "rejected"} : ParseNext(outcome)
  \/ UserClick

SpecLoad == InitLoad /\ [][NextLoad]_vars

\* ------------------------------------------------------------------
\* The navigation buttons and sections of the page of script.js and
\* nav-fix.js.  In these sessions `dom` holds the elements carrying the
\* class 'active' and the click handlers registered on the buttons.

\* The ids of the sections of the page.  Every navigation button has one
\* of them as its data-target and is named by it; the buttons hold text
\* only, so that a click on a button has the button as its target.  The
\* markup is not part of the sources.
sectionIds == {"basics", "attributes", "skills", "equipment", "export"}

\* The click event a button receives.
clickOn(btn) == [target |-> btn, currentTarget |-> btn]

\* activateSection of nav-fix.js.
activateSection(st, target) ==
  [st EXCEPT !.dom.activeSections = { sec \in sectionIds : sec = target }]

\* handleNavClick of nav-fix.js.
navFixHandleNavClick(st, ev) ==
  LET btn == ev.currentTarget
      target == btn
  IN  activateSection([st EXCEPT !.dom.activeButtons = {btn}], target)

\* handleNavClick of script.js without the removal of line 1580.
handleNavClickKeeping(st, ev) ==
  LET target == ev.target
  IN  [st EXCEPT !.dom.activeButtons = @ \cup {ev.target},
                 !.dom.activeSections = { sec \in sectionIds : sec = target }]

\* handleNavClick of script.js.
handleNavClick(st, ev) ==
  LET target == ev.target
  IN  [st EXCEPT !.dom.activeButtons = (@ \ sectionIds) \cup {ev.target},
                 !.dom.activeSections = { sec \in sectionIds : sec = target }]

\* The listeners of a button run in the order of their registration.
RECURSIVE dispatch(_, _, _)
dispatch(st, listeners, ev) ==
  IF listeners = << >> THEN st
  ELSE dispatch(IF Head(listeners) = "nav-fix.js"
                THEN navFixHandleNavClick(st, ev)
                ELSE handleNavClick(st, ev),
                Tail(listeners), ev)

\* Number of clicks in a session of SpecNav.
MaxNavEvents == 5

\* The listeners on the buttons: either script alone, or both in the
\* order the page loads the scripts.
NavListeners ==
  { << "nav-fix.js" >>, << "script.js" >>, << "nav-fix.js", "script.js" >>,
    << "script.js", "nav-fix.js" >> }

\* The page after DOMContentLoaded, one button and its section active.
InitNav ==
  /\ \E first \in sectionIds, listeners \in NavListeners :
       dom = [ listeners |-> listeners,
               activeButtons |-> {first},
               activeSections |-> {first} ]
  /\ character = << >>
  /\ lastEvent = [op |-> "load", arg |-> ""]
  /\ budget = MaxNavEvents

NavClick(btn) ==
  Apply(dispatch(state, dom.listeners, clickOn(btn)),
        [op |-> "navClick", arg |-> btn])

NextNav == \E btn \in sectionIds : NavClick(btn)

SpecNav == InitNav /\ [][NextNav]_vars
----------------------------------------------------------------------------
(* Properties of the allocation engine.                                    *)

allocationOf(s, p) == character.skillAllocations[s][p]

\* C1: for every pool, the points allocated over all skills never exceed
\* the pool's total (the remaining points are never negative).
PoolsNeverOverspent ==
  \A p \in PoolNames : PoolSpent(character, p) <= character.skillPools[p]

\* C2: every skill's allocation in each of the three pools is a
\* non-negative integer.
AllocationsNonNegative ==
  \A s \in allSkills, p \in PoolNames :
    allocationOf(s, p) \in Int /\ allocationOf(s, p) >= 0

\* C3: every allocation, in each of the three pools, is at most the
\* per-skill maximum of the selected age category.
AllocationsWithinAgeMax ==
  \A s \in allSkills, p \in PoolNames :
    allocationOf(s, p) <= ageCategories[character.ageCat].max

\* C3, amended: culture and career allocations are at most the fixed cap of
\* 15 held in skillCaps, and only the bonus allocations are bounded by the
\* per-skill maximum of the selected age category, which skillCaps.bonus
\* always equals.
AllocationsWithinPoolCaps ==
  /\ character.skillCaps.culture = 15
  /\ character.skillCaps.career = 15
  /\ character.skillCaps.bonus = ageCategories[character.ageCat].max
  /\ \A s \in allSkills, p \in PoolNames :
       allocationOf(s, p) <= character.skillCaps[p]

\* A young character holding 15 culture points on one skill and the young
\* maximum of bonus points on another input: both caps are reached.
WitnessPoolCaps ==
  /\ character.ageCat = "Young"
  /\ allocationOf("Athletics", "culture") = 15
  /\ allocationOf("Athletics", "bonus") = ageCategories["Young"].max
  /\ lastEvent.op = "skillInput"

\* The skills one side's pool may be spent on: the standard skills of the
\* active culture (career) and the selected professional skills of its list.
eligibleFor(c, type) ==
  LET def == IF type = "culture" THEN cultures[c.culture]
             ELSE careers[c.career]
  IN  Range(def.standard)
        \cup (Range(def.professional) \cap Range(selectedOf(c, type)))

\* C4: a skill holding culture (career) points is a standard skill of the
\* active culture (career) or a selected professional skill of that side.
AllocatedSkillsEligible ==
  \A type \in {"culture", "career"}, s \in allSkills :
    allocationOf(s, type) > 0 => s \in eligibleFor(character, type)

\* C5: every standard skill of the active culture holds at least 5 culture
\* points.
CultureStandardAtLeastFive ==
  \A s \in Range(cultures[character.culture].standard) :
    allocationOf(s, "culture") >= 5

\* C6: each selection has at most 3 members, no duplicate, and only skills
\* of the professional list of the active culture (career).
SelectionsWellFormed ==
  \A type \in {"culture", "career"} :
    LET sel == selectedOf(character, type)
    IN  /\ Len(sel) <= 3
        /\ Cardinality(Range(sel)) = Len(sel)
        /\ Range(sel) \subseteq Range(proListOf(character, type))

\* A selection cut to two by a culture change and filled to three again by
\* a click.
WitnessSelections ==
  /\ character.culture = "Nomadic"
  /\ character.selectedCulturePro = << "Craft", "Lore", "Language" >>
  /\ lastEvent = [op |-> "toggle", arg |-> "Language"]

\* C7: checking the box of a skill that is not selected while that side
\* already has 3 selected skills changes nothing of the character: the
\* selections, the allocations and the pool totals stay as they were.
FourthSelectionRejected ==
  [][\A type \in {"culture", "career"} :
     \A skill \in Range(proListOf(character, type)) :
       ( /\ lastEvent' = [op |-> "toggle", arg |-> skill]
         /\ Len(selectedOf(character, type)) = 3
         /\ ~includes(selectedOf(character, type), skill)
         /\ ProfessionalToggle(type, skill) )
       => character' = character]_vars

\* The click on Musicianship with Craft, Healing and Lore selected has been
\* handled, and the three are still the selection.
WitnessFourthRejected ==
  /\ lastEvent = [op |-> "toggle", arg |-> "Musicianship"]
  /\ character.culture = "Barbarian"
  /\ character.selectedCulturePro = << "Craft", "Healing", "Lore" >>
  /\ "Musicianship" \notin dom.cultureChecked

\* C8: unchecking a selected professional skill removes it from that side's
\* selection and sets its points of that side's pool to 0, and the pool's
\* remaining points grow by exactly the points that skill held.
DeselectFreesItsPoints ==
  [][\A type \in {"culture", "career"} :
     \A skill \in Range(selectedOf(character, type)) :
       ( /\ includes(proListOf(character, type), skill)
         /\ ProfessionalToggle(type, skill) )
       => /\ ~includes(selectedOf(character', type), skill)
          /\ character'.skillAllocations[skill][type] = 0
          /\ PoolRemaining(character', type)
               = PoolRemaining(character, type) + allocationOf(skill, type)]_vars

\* C9: from a state where a side has fewer than 3 selected skills and does
\* not contain the skill, checking its box and unchecking it again restores
\* the selections, every allocation and every pool's remaining points.
ToggleRoundTripRestores ==
  \A type \in {"culture", "career"} :
    \A skill \in Range(proListOf(character, type)) :
      ( /\ Len(selectedOf(character, type)) < 3
        /\ ~includes(selectedOf(character, type), skill) )
      => LET on == clickProfessionalBox(state, type, skill)
             off == clickProfessionalBox(on, type, skill)
         IN  /\ off.character.selectedCulturePro = character.selectedCulturePro
             /\ off.character.selectedCareerPro = character.selectedCareerPro
             /\ off.character.skillAllocations = character.skillAllocations
             /\ \A p \in PoolNames :
                  PoolRemaining(off.character, p) = PoolRemaining(character, p)

\* C10: handling a culture change to K twice in a row leaves the character
\* (allocations, pool totals, both selections, social class, bonus skill)
\* as handling it once does.
CultureChangeIdempotent ==
  \A K \in DOMAIN cultures :
    LET once == onCultureOrCareerChange(state, K, character.career)
        twice == onCultureOrCareerChange(once, K, once.character.career)
    IN  twice.character = once.character

\* A culture change has been handled: Brawn lost its points, the new
\* standard skill Stealth got its minimum and the selection was filtered.
WitnessCultureChange ==
  /\ lastEvent = [op |-> "culture", arg |-> "Nomadic"]
  /\ character.culture = "Nomadic"
  /\ allocationOf("Brawn", "culture") = 0
  /\ allocationOf("Stealth", "culture") = 5
  /\ allocationOf("Athletics", "culture") = 15
  /\ character.selectedCulturePro = << "Craft", "Lore" >>


\* The selection a side is seeded with: the first min(3, n) entries of its
\* professional list.
seedOf(list) == slice(list, Min(3, Len(list)))

\* C11: after a culture (career) change that side's selection is the first
\* min(3, n) entries of the new professional list, whatever was selected
\* before the change.
SelectionReseededOnChange ==
  [][ /\ (\E key \in CultureKeys : CultureChange(key))
           => character'.selectedCulturePro
                = seedOf(cultures[character'.culture].professional)
      /\ (\E key \in CareerKeys : CareerChange(key))
           => character'.selectedCareerPro
                = seedOf(careers[character'.career].professional) ]_vars

fixedBonusAmount == 50

\* C12: choosing a new bonus skill gives it min(fixed bonus amount, bonus
\* points remaining) bonus points, and these points count as spent from the
\* bonus pool.
BonusSkillAutoAllocated ==
  [][\A val \in BonusPicks :
       BonusSkillChange(val)
       => /\ character'.skillAllocations[val].bonus
               = Min(fixedBonusAmount, PoolRemaining(character, "bonus"))
          /\ PoolSpent(character', "bonus")
               >= character'.skillAllocations[val].bonus]_vars

\* C13: whenever the bonus skill changes from a skill s to another value,
\* by the select or by a culture, career or selection change that clears
\* it, s holds no bonus points afterwards.
PreviousBonusSkillRefunded ==
  [][( /\ character.bonusSkill # ""
       /\ character'.bonusSkill # character.bonusSkill )
     => character'.skillAllocations[character.bonusSkill].bonus = 0]_vars

\* The points of a pool an edit of `skill` may use: the pool's total less
\* what the other skills hold.
availableFor(c, skill, poolName) ==
  c.skillPools[poolName]
    - (PoolSpent(c, poolName) - c.skillAllocations[skill][poolName])

\* The inputs the sessions of Spec and of SpecPool type into.
TypedTargets == EditTargets \cup { <<s, "culture">> : s \in PoolEditSkills }

\* C17: an edit whose amount exceeds the per-skill cap or the points the
\* pool has left for the skill changes nothing: the skill's allocation in
\* that pool is afterwards what it was before.
RejectedEditIsNoOp ==
  [][\A t \in TypedTargets, text \in EditTexts :
       ( /\ ~parseInt(text).isNaN
         /\ \/ parseInt(text).n > character.skillCaps[t[2]]
            \/ parseInt(text).n > availableFor(character, t[1], t[2])
         /\ SkillInput(t[1], t[2], text) )
       => character'.skillAllocations[t[1]][t[2]]
            = character.skillAllocations[t[1]][t[2]]]_vars

\* C17, amended: such an edit is not undone but clamped. The amount is
\* lowered to the pool's per-skill cap, raised to 5 for a standard skill of
\* the active culture in the culture pool, and the result is lowered to the
\* points the pool has left for the skill when it exceeds them.
RejectedEditIsClamped ==
  [][\A t \in TypedTargets, text \in EditTexts :
       ( /\ ~parseInt(text).isNaN
         /\ \/ parseInt(text).n > character.skillCaps[t[2]]
            \/ parseInt(text).n > availableFor(character, t[1], t[2])
         /\ SkillInput(t[1], t[2], text) )
       => LET capped == Min(parseInt(text).n, character.skillCaps[t[2]])
              floored == IF /\ t[2] = "culture"
                            /\ t[1] \in Range(cultures[character.culture].standard)
                         THEN Max(capped, 5) ELSE capped
          IN  character'.skillAllocations[t[1]][t[2]]
                = Min(floored, availableFor(character, t[1], t[2]))]_vars

\* Typing 90 for Craft with 5 culture points left: Craft holds the 5 that
\* were left, after five skills were clamped to the cap of 15.
WitnessEditClamped ==
  /\ lastEvent = [op |-> "skillInput", arg |-> "Craft"]
  /\ allocationOf("Craft", "culture") = 5
  /\ allocationOf("Athletics", "culture") = 15
  /\ PoolRemaining(character, "culture") = 0

\* C18: the summed cost of the purchased equipment never exceeds the
\* starting silver (0 before the first roll), and no item is in the list
\* twice.
EquipmentWithinSilver ==
  /\ getEquipmentTotal(character) <= silverOrZero(character)
  /\ \A i, j \in 1..Len(character.equipment) :
       character.equipment[i].name = character.equipment[j].name => i = j

\* Dagger and Short Sword bought with the 70 silver rolled: nothing is left.
WitnessEquipmentBought ==
  /\ character.startingSilver = << 70 >>
  /\ Len(character.equipment) = 2
  /\ getEquipmentTotal(character) = 70
  /\ lastEvent.op = "equipment"

\* C19: a purchase of an item that costs more than the remaining silver
\* leaves the equipment, the starting silver and the remaining silver as
\* they were.
UnaffordablePurchaseRejected ==
  [][\A name \in ShopItems :
       ( /\ ~hasItem(character, name)
         /\ itemNamed(name).cost > remainingSilver(character)
         /\ EquipmentToggle(name) )
       => /\ character'.equipment = character.equipment
          /\ character'.startingSilver = character.startingSilver
          /\ remainingSilver(character') = remainingSilver(character)]_vars

\* The click on Chain Mail (500) with 70 silver rolled has been handled:
\* nothing was bought and the box is unchecked again.
WitnessPurchaseRejected ==
  /\ lastEvent = [op |-> "equipment", arg |-> "Chain Mail"]
  /\ character.startingSilver = << 70 >>
  /\ ~hasItem(character, "Chain Mail")
  /\ "Chain Mail" \notin dom.equipChecked

\* C15: in every allocation table of main.js the values sum to at most the
\* table's limit, and no value is negative.
TablesWithinLimit ==
  \A table \in DOMAIN tableLimit :
    /\ spentOf(character.skillAlloc[table]) <= tableLimit[table]
    /\ \A s \in skillsData : character.skillAlloc[table][s] >= 0

\* C16: a request for more points than the pool has left for the skill is
\* clamped to exactly those points, and the pool is then used up: with 15
\* of 100 culture points on Athletics, a request of 90 for Brawn leaves
\* Brawn with 85 and 0 points left.
RequestClampedToRemaining ==
  [][\A table \in DOMAIN tableLimit, s \in MainEditSkills, text \in MainTexts :
       LET alloc == character.skillAlloc[table]
           remaining == tableLimit[table] - (spentOf(alloc) - alloc[s])
       IN  ( /\ remaining >= 0
             /\ parseIntOrZero(text) > remaining
             /\ AllocInput(table, s, text) )
           => /\ character'.skillAlloc[table][s] = remaining
              /\ spentOf(character'.skillAlloc[table]) = tableLimit[table]]_vars

\* C20: the total cost of the equipment never exceeds the starting silver,
\* so the silver remaining shown on the review step is never negative.
CostWithinStartingSilver ==
  /\ totalCost(character) <= character.startingSp
  /\ silverRemaining(character) >= 0

\* ------------------------------------------------------------------
\* C21: every roll of starting silver empties the equipment list, so right
\* after the roll the remaining silver equals the newly rolled starting
\* silver, whatever had been purchased before.
SilverRollEmptiesEquipment ==
  [][(\E roll \in RollTotals : RollSilver(roll))
       => /\ character'.equipment = << >>
          /\ character'.startingSilver # << >>
          /\ remainingSilver(character') = character'.startingSilver[1]
          /\ dom'.equipChecked = {}]_vars

\* A third event that is a roll: the session rolled, bought the Dagger and
\* rolled again, and the list is empty with the full 20 silver remaining.
WitnessRolledAgain ==
  /\ lastEvent.op = "rollSilver"
  /\ budget = MaxMoneyEvents - 3
  /\ character.startingSilver = << 20 >>
  /\ character.equipment = << >>
  /\ remainingSilver(character) = 20

\* ------------------------------------------------------------------
\* The derived-statistic functions of script.js.
derivedFunctions ==
  {"damageModifier", "experienceModifier", "healingRate", "luckPoints",
   "hitPointsPerLocation"}

\* C27: every derived-statistic function of script.js returns a value,
\* without raising an error, for every non-negative integer input, 0
\* included.
DerivedFunctionsTotal ==
  lastEvent.op \in derivedFunctions => ~dom.threw

\* The three bands up to 6, 12 and 18 with the values low, low + 1 and
\* low + 2, then low + 2 + floor((x - 13) / 6).
threeBands(x, low) ==
  IF x <= 6 THEN low
  ELSE IF x <= 12 THEN low + 1
  ELSE IF x <= 18 THEN low + 2
  ELSE low + 2 + ((x - 13) \div 6)

\* C28: experienceModifier(CHA) is -1 up to 6, 0 for 7..12, +1 for 13..18
\* and 1 + floor((CHA - 13) / 6) above 18; healingRate(CON) and
\* luckPoints(POW) have the same shape with 1, 2, 3 and
\* 3 + floor((x - 13) / 6).
ThreeBandFunctions ==
  /\ lastEvent.op = "experienceModifier"
       => dom.value = threeBands(character.total, 0 - 1)
  /\ lastEvent.op = "healingRate"
       => dom.value = threeBands(character.total, 1)
  /\ lastEvent.op = "luckPoints"
       => dom.value = threeBands(character.total, 1)

\* experienceModifier(25) has returned 1 + floor(12 / 6) = 3.
WitnessExperienceAbove18 ==
  /\ lastEvent.op = "experienceModifier"
  /\ character.total = 25
  /\ dom.value = 3

\* C29: for every sum >= 1, hitPointsPerLocation(sum) returns row
\* floor((sum - 1) / 5), at most row 7, of the 8-row table with every
\* location raised by floor((sum - 40) / 5) when sum > 40; sum 26 gives
\* head 6, chest 8, abdomen 7, arm 5, leg 6.
HitPointsFollowTable ==
  (lastEvent.op = "hitPointsPerLocation" /\ character.total >= 1)
    => LET sum == character.total
           row == hitPointRows[Min((sum - 1) \div 5, 7) + 1]
           extra == IF sum > 40 THEN (sum - 40) \div 5 ELSE 0
       IN  /\ ~dom.threw
           /\ \A loc \in {"head", "chest", "abdomen", "arm", "leg"} :
                dom.value[loc] = row[loc] + extra
           /\ sum = 26 =>
                /\ dom.value.head = 6
                /\ dom.value.chest = 8
                /\ dom.value.abdomen = 7
                /\ dom.value.arm = 5
                /\ dom.value.leg = 6

\* hitPointsPerLocation(47) has returned the last row raised by 1.
WitnessHitPointsAbove40 ==
  /\ lastEvent.op = "hitPointsPerLocation"
  /\ character.total = 47
  /\ dom.value.head = 9
  /\ dom.value.chest = 11
  /\ dom.value.leg = 9

\* C30: the damage modifier of STR + SIZ follows the step table in both
\* programs: a sum in 26..30 gives "+1d2", the bands run from "-1d8" (up
\* to 5) to "+2d10" (101..110), and a sum beyond the last band (above 120)
\* gives "+2d10" with n d2 added, n = floor((sum - 120) / 10).
DamageModifierFollowsTable ==
  lastEvent.op \in {"damageModifier", "damageMod"}
    => LET sum == character.total
       IN  /\ sum \in 26..30 => dom.value = "+1d2"
           /\ sum <= 5 => dom.value = "-1d8"
           /\ sum \in 101..110 => dom.value = "+2d10"
           /\ sum > 120 =>
                dom.value = "+2d10+" \o ToString((sum - 120) \div 10) \o "d2"

\* ------------------------------------------------------------------
\* C22: after a roll, each of STR, CON, DEX, POW and CHA is a 3d6 total
\* (3..18) and each of SIZ and INT is a 2d6+6 total (8..18), whatever the
\* inputs held before.
RolledWithinDice ==
  (lastEvent.op = "method" /\ lastEvent.arg = "roll")
    => /\ \A key \in {"STR", "CON", "DEX", "POW", "CHA"} :
            character.attributes[key] \in 3..18
       /\ \A key \in {"SIZ", "INT"} : character.attributes[key] \in 8..18

\* The least value of a characteristic: 8 for SIZ and INT, 3 for the others.
minimumOf(key) == IF key \in {"SIZ", "INT"} THEN 8 ELSE 3

\* C23: a manual edit stores the entry clamped into [minimum, maximum], the
\* minimum being 8 for SIZ and INT and 3 for the other five: after a manual
\* edit SIZ >= 8, INT >= 8 and every characteristic is within its bounds.
EditedWithinBounds ==
  lastEvent.op = "attribute"
    => \A key \in DOMAIN character.attributes :
         /\ character.attributes[key] >= minimumOf(key)
         /\ character.attributes[key] <= 21

\* The cumulative cost of the characteristics: their sum less the sum of
\* the minimums.
cumulativeCost(c) ==
  SumOver(DOMAIN c.attributes, c.attributes)
    - SumOver(DOMAIN c.attributes, [key \in DOMAIN c.attributes |-> minimumOf(key)])

\* C24: under point buy a manual edit whose cumulative cost would exceed
\* character.pool is rejected and the characteristic keeps its prior value,
\* so that the cumulative cost never exceeds the pool in a point-buy state.
EditOverPoolRejected ==
  [][\A key \in AttrEditKeys, text \in AttrTexts :
       ( /\ dom.method = "point"
         /\ AttributeInput(key, text)
         /\ cumulativeCost(character') > character'.pool )
       => character'.attributes = character.attributes]_vars

\* ------------------------------------------------------------------
\* The sum the total of a skill is made of: the base from the current
\* characteristics and the three allocations.
plainTotal(c, skill) ==
  computeBaseForSkill(c, skill) + c.skillAllocations[skill].culture
    + c.skillAllocations[skill].career + c.skillAllocations[skill].bonus

\* The total of a skill: the sum, raised to 5 when the skill has a
\* standard formula and the sum is below 5.
expectedTotal(c, skill) ==
  IF skill \in standardSkillFormulas /\ plainTotal(c, skill) < 5
  THEN 5 ELSE plainTotal(c, skill)

\* C25: for every skill, the total computeTotalForSkill reports and the
\* total in the snapshot of buildCharacterData equal base + culture + career
\* + bonus allocation of the current character, raised to 5 when the skill
\* has a standard formula and the sum is below 5.
TotalsAreBasePlusAllocations ==
  /\ \A skill \in allSkills :
       computeTotalForSkill(character, skill) = expectedTotal(character, skill)
  /\ buildCharacterData(character).skills =
       [ skill \in allSkills |->
           [ base |-> computeBaseForSkill(character, skill),
             culture |-> character.skillAllocations[skill].culture,
             career |-> character.skillAllocations[skill].career,
             bonus |-> character.skillAllocations[skill].bonus,
             total |-> expectedTotal(character, skill) ] ]

\* Stealth holds -5 culture points on a base of 6: its sum is 1 and its
\* total is raised to 5.
WitnessTotalRaised ==
  /\ plainTotal(character, "Stealth") < 5
  /\ computeTotalForSkill(character, "Stealth") = 5
  /\ buildCharacterData(character).skills["Stealth"].total = 5

\* ------------------------------------------------------------------
\* C26: after every completed handler (culture, career, age, social class,
\* combat style, name, bonus skill, allocation, toggle, equipment, silver
\* roll) the summary shows exactly what the current character gives, and
\* the three "remaining" counters show what the pools have left.
SummaryAndCountersCurrent ==
  /\ shownSummary(dom) = << summaryOf(character) >>
  /\ shownRemaining(dom) =
       << [pool \in PoolNames |-> PoolRemaining(character, pool)] >>

\* ------------------------------------------------------------------
\* The number n of d2 dice in a result of the form "+2d10+nd2", as read
\* from the returned text.
d2DiceOf(value) ==
  CHOOSE n \in 0..MaxTotal : value = "+2d10+" \o ToString(n) \o "d2"

\* C39: damageModifier is non-decreasing: for sums at or above 111 the
\* number of d2 dice added to "+2d10" for a sum is never smaller than for
\* the sum before it (the result for 121 is not weaker than the result
\* for 120).
DamageModifierNonDecreasing ==
  (lastEvent.op = "damageModifier" /\ character.total >= 112)
    => d2DiceOf(dom.value) >= d2DiceOf(damageModifier(character.total - 1))

\* C34: apart from the experience modifier, main.js renderReview and
\* script.js derive identical damage modifier, healing rate, luck points
\* and initiative bonus from every characteristic set with all values in
\* 3..21.
DerivedStatisticsAgree ==
  (dom.main # << >> /\ dom.script # << >>)
    => /\ dom.main[1].damageMod = dom.script[1].damageModifier
       /\ dom.main[1].healingRate = dom.script[1].healingRate
       /\ dom.main[1].luckPoints = dom.script[1].luckPoints
       /\ dom.main[1].initiativeBonus = dom.script[1].initiative

\* ------------------------------------------------------------------
\* The events that build a snapshot or write into one.
snapshotOps ==
  {"buildCharacterData", "data.attributes", "data.skills", "data.selected",
   "data.equipment"}

ToggleChangesOnlyItsSkill ==
  [][lastEvent'.op = "toggle"
       => \A s \in allSkills \ {lastEvent'.arg} :
            character'.skillAllocations[s] = character.skillAllocations[s]]_vars

\* ------------------------------------------------------------------
\* The points every skill holds in one pool.
poolAllocations(c, poolName) ==
  [ s \in allSkills |-> c.skillAllocations[s][poolName] ]

\* C33: changing only the career leaves the culture-side professional
\* selection and every culture-pool allocation unchanged, and changing
\* only the culture leaves the career-side selection and every career-pool
\* allocation unchanged.
OtherSideUntouched ==
  [][/\ (lastEvent'.op = "career" /\ character'.culture = character.culture)
          => /\ character'.selectedCulturePro = character.selectedCulturePro
             /\ poolAllocations(character', "culture")
                  = poolAllocations(character, "culture")
     /\ (lastEvent'.op = "culture" /\ character'.career = character.career)
          => /\ character'.selectedCareerPro = character.selectedCareerPro
             /\ poolAllocations(character', "career")
                  = poolAllocations(character, "career")]_vars

\* ------------------------------------------------------------------
\* The names of the social classes of a culture.
classNames(cultureKey) ==
  LET classes == socialClassesByCulture[cultureKey]
  IN  { classes[i].name : i \in 1..Len(classes) }

\* C38: in every state after init, character.socialClass names a class of
\* socialClassesByCulture[character.culture]: a culture change keeps the
\* earlier class when the new culture has it and takes the first class
\* otherwise, so the silver roll finds the class and never falls back to
\* the multiplier 1.
SocialClassOfCulture ==
  /\ [](character.socialClass \in classNames(character.culture))
  /\ [][lastEvent'.op = "culture"
          => character'.socialClass =
               IF character.socialClass \in classNames(character'.culture)
               THEN character.socialClass
               ELSE socialClassesByCulture[character'.culture][1].name]_vars

\* A culture change has replaced a class the new culture does not have,
\* and silver was then rolled with the multiplier of the new class.
WitnessClassReplaced ==
  /\ lastEvent.op = "rollSilver"
  /\ character.culture = "Primitive"
  /\ character.socialClass = "Outcast"
  /\ character.startingSilver = << 10 >>

\* ------------------------------------------------------------------
\* The position of a step in the order of the form.
stepIndex(step) == CHOOSE i \in 1..Len(wizardSteps) : wizardSteps[i] = step

\* Whether the form refuses a click on "next" in the current state.
refused(click) ==
  \/ /\ click.step = "concept"
     /\ (dom.cultureSelect = "" \/ dom.careerSelect = "")
  \/ /\ click.step = "attributes"
     /\ \E key \in Range(attributeKeys) : character.attributes[key] <= 0
  \/ /\ click.step \in DOMAIN tableLimit
     /\ ~click.confirmed
     /\ computePointsLeft(character.skillAlloc[click.step],
                          tableLimit[click.step]) > 0

\* C35: the steps of main.js are shown only in the order concept,
\* attributes, culture skills, career skills, bonus skills, equipment,
\* review; the attributes step is shown only once a culture and a career
\* are chosen, the culture-skills step only when all seven attributes are
\* above 0, and a refused or unconfirmed click on "next" leaves the step
\* and the character as they were.
WizardStepsInOrder ==
  /\ [](dom.step # "concept"
          => character.concept.culture # "" /\ character.concept.career # "")
  /\ [](dom.step = "culture"
          => \A key \in Range(attributeKeys) : character.attributes[key] > 0)
  /\ [][dom'.step # dom.step
          => stepIndex(dom'.step) = stepIndex(dom.step) + 1]_vars
  /\ [][(lastEvent'.op = "next" /\ refused(lastEvent'.arg))
          => (dom' = dom /\ character' = character)]_vars

\* The form has come through every step to the review, with an attribute
\* typed after the roll and culture points left on the way.
WitnessReviewShown ==
  /\ dom.step = "review"
  /\ lastEvent.op = "next"
  /\ character.attributes.STR = 15
  /\ character.skillAlloc.culture["Athletics"] = 90

\* ------------------------------------------------------------------
\* C36: in main.js no handler of a user event runs before the four data
\* sets are loaded: the handlers are registered only after loadData has
\* completed, the data is loaded exactly once, and if a request or its
\* parsing fails no handler is ever registered.
HandlersAfterLoadedData ==
  /\ [](dom.registered
          => /\ \A r \in Range(dataFiles) : character[r] = "loaded"
             /\ dom.loads = 1
             /\ ~dom.failed)
  /\ [](~dom.ranWithoutData)
  /\ [](dom.loads <= 1)
  /\ [][\A r \in Range(dataFiles) :
          character'[r] # character[r] => character[r] = "null"]_vars
  /\ [][dom.failed => (dom'.failed /\ ~dom'.registered)]_vars

\* A handler has run after the four files were loaded and the handlers
\* registered.
WitnessHandlerRan ==
  /\ lastEvent.op = "click"
  /\ dom.handlerRuns = 1
  /\ dom.loads = 1
  /\ \A r \in Range(dataFiles) : character[r] = "loaded"

====
